---- MODULE Spec2Model ----
(***************************************************************************)
(* httprouter: class-based routing adapters for Starlette, FastAPI and     *)
(* Litestar.  Decorators attach specifications to methods and classes,     *)
(* inspect_router recovers them by reflection, mount_router replays them   *)
(* into the host framework.                                                *)
(*                                                                         *)
(* Conventions of the model                                                *)
(*   - a Python string is a sequence of one-character strings;             *)
(*   - Optional[T] is None == <<>> or Some(v) == <<v>>;                    *)
(*   - a dataclass instance is a record holding the modelled fields;       *)
(*   - a bound method (handler) is the pair <<class, member name>>;        *)
(*   - a function that can raise returns [raised |-> "" or the exception]. *)
(***************************************************************************)
EXTENDS Integers, Sequences, FiniteSets, TLC

VARIABLES
    variant,      \* which adapter module the program imports
    defined,      \* defined[c]: the class statement of c has completed
    class_decorator, \* class_decorator[c]: how ROUTER is written above c
    router_spec,  \* router_spec[c]: the class attribute __router_spec__
    is_dataclass, \* is_dataclass[c]: dataclass(cls) has processed the class
    members,      \* members[c]: the class body, in declaration order
    app,          \* the host: what has been registered on it, in order
    last,         \* the outcome of the last inspect_router / mount_router call
    calls,        \* number of mount_router calls made
    host,         \* the host's lifecycle position and the pending exception
    hooks,        \* per registration: position of its lifespan wrapper
    flags         \* flags[c]: what the lifespan hook of c's instance has done

vars == <<variant, defined, class_decorator, router_spec, is_dataclass, members, app, last, calls,
          host, hooks, flags>>

-----------------------------------------------------------------------------
(* Bounds *)

MaxMounts == 2
MaxMembers == 2

-----------------------------------------------------------------------------
(* Python values *)

None == <<>>
Some(v) == <<v>>
IsNone(o) == o = None
Get(o) == o[1]

\* litestar.types.Empty, the "not given" sentinel of a bool | EmptyType field
\* (whose values are Some(TRUE) and Some(FALSE)).
Empty == <<>>

SLASH == "/"

RECURSIVE rstrip(_, _)
rstrip(s, ch) ==
    IF Len(s) > 0 /\ s[Len(s)] = ch THEN rstrip(SubSeq(s, 1, Len(s) - 1), ch)
    ELSE s

RECURSIVE lstrip(_, _)
lstrip(s, ch) ==
    IF Len(s) > 0 /\ s[1] = ch THEN lstrip(Tail(s), ch)
    ELSE s

Classes == {"A", "B"}

\* Member names in the order inspect.getmembers lists them (sorted by name).
SortedNames == <<"a", "b", "c">>
Names == {SortedNames[i] : i \in 1..Len(SortedNames)}

Method == {"GET", "POST", "PUT", "PATCH", "DELETE"}

\* A method of a class body: `callable` is the object the name is bound to
\* ("fn": the function as written), `decorator` is the symbol written above it
\* ("" for none) and `only_path` tells that the decorator got a path and
\* nothing else; the three other fields are the attributes the decorator set.
\* `body` is the shape of the method's code where it matters: that of an
\* asynchronous generator written to be a lifespan hook ("": any other code).
Member(name, decorator, only_path, route_spec, ws_route_spec, router_lifespan) ==
    [name |-> name, decorator |-> decorator, only_path |-> only_path, route_spec |-> route_spec,
     ws_route_spec |-> ws_route_spec, router_lifespan |-> router_lifespan,
     callable |-> "fn", body |-> ""]

\* A method that carries no decorator.
PlainMember == Member("", "", FALSE, None, None, FALSE)

\* The bodies a lifespan hook is written with:
\*   try_finally   started = True; try: yield; finally: stopped = True
\*   except_pass   the same, with `except Exception: pass` before finally
\*   setup_raises  raises before it reaches its yield
HookBodies == {"try_finally", "except_pass", "setup_raises"}

\* An asynchronous generator method with the given body, not yet decorated.
HookMethod(body) == [PlainMember EXCEPT !.body = body]

HasName(body, name) == \E i \in 1..Len(body) : body[i].name = name

Lookup(body, name) == body[CHOOSE i \in 1..Len(body) : body[i].name = name]

\* inspect.getmembers(router): the members sorted by name.
RECURSIVE getmembers_from(_, _)
getmembers_from(body, k) ==
    IF k > Len(SortedNames) THEN <<>>
    ELSE (IF HasName(body, SortedNames[k])
          THEN <<Lookup(body, SortedNames[k])>> ELSE <<>>)
         \o getmembers_from(body, k + 1)

\* Mutant: the members in the order the class body declares them.
getmembers_as_declared(c) == members[c]

getmembers(c) == getmembers_from(members[c], 1)

Handler(c, m) == <<c, m.name>>

\* How ROUTER is written above a class: bare (@ROUTER), or called with keyword
\* arguments (@ROUTER(prefix=...)); kwargs maps the names given to their values.
Bare == Some([bare |-> TRUE, kwargs |-> <<>>])
Called(kwargs) == Some([bare |-> FALSE, kwargs |-> kwargs])

\* A keyword argument of RouterSpec(**kwargs): the value given, or the
\* default of the field.
Kw(kwargs, f, default) == IF f \in DOMAIN kwargs THEN kwargs[f] ELSE default

\* What the attributes of class c and of its methods hold.  mount_router works
\* on dataclasses.replace copies and asdict dictionaries: its assignments go
\* to the copies, and the call leaves these objects as it found them.
Stored(c) == [router_spec |-> router_spec[c], members |-> members[c]]

\* A route the host application was built with, before any mount.
HostRoute == [kind |-> "host"]

\* `fail` is the input of a mount call that tells which of its calls into the
\* host raises (0: none).
NoResult ==
    [op |-> "", router |-> "", args |-> None, fail |-> 0, raised |-> "", value |-> None]

-----------------------------------------------------------------------------
(* httprouter.starlette *)

st_WEBSOCKET(path, name) == [name |-> name, path |-> path]

st_ROUTE(path, include_in_schema, name, middleware, methods) ==
    [name |-> name, path |-> path, include_in_schema |-> include_in_schema,
     middleware |-> middleware, methods |-> methods]

st_GET(path, name, middleware, methods) ==
    st_ROUTE(path, TRUE, name, middleware, IF methods = None THEN <<"GET">> ELSE Get(methods))
st_POST(path, name, middleware, methods) ==
    st_ROUTE(path, TRUE, name, middleware, IF methods = None THEN <<"POST">> ELSE Get(methods))
st_PUT(path, name, middleware, methods) ==
    st_ROUTE(path, TRUE, name, middleware, IF methods = None THEN <<"PUT">> ELSE Get(methods))
st_PATCH(path, name, middleware, methods) ==
    st_ROUTE(path, TRUE, name, middleware, IF methods = None THEN <<"PATCH">> ELSE Get(methods))
st_DELETE(path, name, middleware, methods) ==
    st_ROUTE(path, TRUE, name, middleware, IF methods = None THEN <<"DELETE">> ELSE Get(methods))

\* The decorator written in the class body, by its symbol.
st_decorator(d, path, name, middleware, methods) ==
    CASE d = "GET" -> st_GET(path, name, middleware, methods)
      [] d = "POST" -> st_POST(path, name, middleware, methods)
      [] d = "PUT" -> st_PUT(path, name, middleware, methods)
      [] d = "PATCH" -> st_PATCH(path, name, middleware, methods)
      [] d = "DELETE" -> st_DELETE(path, name, middleware, methods)

st_RouterSpec(prefix, middleware) == [middleware |-> middleware, prefix |-> prefix]

\* ROUTER used bare: RouterSpec() with every field at its default.
st_RouterSpecDefault == st_RouterSpec(<<>>, None)

\* Mutant: the decorator drops its keyword arguments.
st_ROUTER_dropping(kwargs) == st_RouterSpecDefault

\* ROUTER(cls) and ROUTER(**kwargs)(cls): the specification set on the class.
st_ROUTER(kwargs) ==
    st_RouterSpec(Kw(kwargs, "prefix", <<>>), Kw(kwargs, "middleware", None))

st_find_router_spec(c) == router_spec[c]

st_find_routes_from_router(c) ==
    LET sel == SelectSeq(getmembers(c), LAMBDA m : m.route_spec # None)
    IN  [i \in 1..Len(sel) |-> [fn |-> Handler(c, sel[i]), spec |-> Get(sel[i].route_spec)]]

st_find_websocket_routes_from_router(c) ==
    LET sel == SelectSeq(getmembers(c), LAMBDA m : m.ws_route_spec # None)
    IN  [i \in 1..Len(sel) |-> [fn |-> Handler(c, sel[i]), spec |-> Get(sel[i].ws_route_spec)]]

st_RouterMembers(spec, routes, websocket_routes) ==
    [spec |-> spec, routes |-> routes, websocket_routes |-> websocket_routes]

\* Mutant: a missing router specification is defaulted instead of refused.
st_inspect_router_defaulting(c) ==
    LET spec == st_find_router_spec(c)
    IN  [raised |-> "",
         value |-> Some(st_RouterMembers(IF spec = None THEN st_RouterSpecDefault
                                                          ELSE Get(spec),
                                         st_find_routes_from_router(c),
                                         st_find_websocket_routes_from_router(c)))]

st_inspect_router(c) ==
    LET spec == st_find_router_spec(c)
    IN  IF spec = None
        THEN [raised |-> "TypeError", value |-> None]
        ELSE [raised |-> "",
              value |-> Some(st_RouterMembers(Get(spec),
                                              st_find_routes_from_router(c),
                                              st_find_websocket_routes_from_router(c)))]

\* Mutant: the two lists are merged as a set would be, dropping repeats.
RECURSIVE Dedup(_)
Dedup(s) ==
    IF s = <<>> THEN <<>>
    ELSE LET rest == Dedup(SubSeq(s, 1, Len(s) - 1))
         IN  IF \E i \in 1..Len(rest) : rest[i] = s[Len(s)] THEN rest
             ELSE Append(rest, s[Len(s)])

st_concat_dedup(a, b) ==
    IF a = None /\ b = None THEN None
    ELSE IF a = None THEN b
    ELSE IF b = None THEN a
    ELSE Some(Dedup(Get(a) \o Get(b)))

st_concat(a, b) ==
    IF a = None /\ b = None THEN None
    ELSE IF a = None THEN b
    ELSE IF b = None THEN a
    ELSE Some(Get(a) \o Get(b))

st_get_path(mount_prefix, router_spec_, spec) ==
    LET mp == rstrip(mount_prefix, SLASH)
        router_prefix == lstrip(rstrip(router_spec_.prefix, SLASH), SLASH)
        path == lstrip(spec.path, SLASH)
    IN  IF router_prefix = <<>>
        THEN mp \o <<SLASH>> \o path
        ELSE mp \o <<SLASH>> \o router_prefix \o <<SLASH>> \o path

\* Route(endpoint=fn, **asdict(route_spec))
st_Route(fn, kw) ==
    [kind |-> "Route", endpoint |-> fn, path |-> kw.path,
     include_in_schema |-> kw.include_in_schema, name |-> kw.name,
     middleware |-> kw.middleware, methods |-> kw.methods]

\* WebSocketRoute(endpoint=ws_fn, **asdict(ws_spec))
st_WebSocketRoute(fn, kw) ==
    [kind |-> "WebSocketRoute", endpoint |-> fn, path |-> kw.path, name |-> kw.name]

\* Mutant: the websocket routes are registered at their declared paths.
st_mount_entries_ws_as_declared(m, prefix) ==
    LET spec == m.spec
        http == [i \in 1..Len(m.routes) |->
                    LET rs == m.routes[i].spec
                        rs1 == [rs EXCEPT !.middleware = st_concat(spec.middleware, rs.middleware)]
                        rs2 == [rs1 EXCEPT !.path = st_get_path(prefix, spec, rs1)]
                    IN  st_Route(m.routes[i].fn, rs2)]
        ws == [i \in 1..Len(m.websocket_routes) |->
                    st_WebSocketRoute(m.websocket_routes[i].fn, m.websocket_routes[i].spec)]
    IN  http \o ws

\* Mutant: the websocket routes get the router-level middleware too.
st_mount_entries_ws_middleware(m, prefix) ==
    LET spec == m.spec
        http == [i \in 1..Len(m.routes) |->
                    LET rs == m.routes[i].spec
                        rs1 == [rs EXCEPT !.middleware = st_concat(spec.middleware, rs.middleware)]
                        rs2 == [rs1 EXCEPT !.path = st_get_path(prefix, spec, rs1)]
                    IN  st_Route(m.routes[i].fn, rs2)]
        ws == [i \in 1..Len(m.websocket_routes) |->
                    LET wsp == m.websocket_routes[i].spec
                    IN  [kind |-> "WebSocketRoute", endpoint |-> m.websocket_routes[i].fn,
                         path |-> st_get_path(prefix, spec, wsp), name |-> wsp.name,
                         middleware |-> spec.middleware]]
    IN  http \o ws

\* Mutant: one loop over the members registers each handler as it is found,
\* HTTP or websocket.
st_mount_entries_in_member_order(m, prefix) ==
    LET spec == m.spec
        http == [i \in 1..Len(m.routes) |->
                    LET rs == m.routes[i].spec
                        rs1 == [rs EXCEPT !.middleware = st_concat(spec.middleware, rs.middleware)]
                        rs2 == [rs1 EXCEPT !.path = st_get_path(prefix, spec, rs1)]
                    IN  st_Route(m.routes[i].fn, rs2)]
        ws == [i \in 1..Len(m.websocket_routes) |->
                    LET wsp == m.websocket_routes[i].spec
                        ws1 == [wsp EXCEPT !.path = st_get_path(prefix, spec, wsp)]
                    IN  st_WebSocketRoute(m.websocket_routes[i].fn, ws1)]
        all == http \o ws
        before(i) == {j \in 1..Len(all) :
                        \E k, l \in 1..Len(SortedNames) :
                            /\ SortedNames[k] = all[j].endpoint[2]
                            /\ SortedNames[l] = all[i].endpoint[2]
                            /\ k < l}
    IN  [n \in 1..Len(all) |->
            all[CHOOSE i \in 1..Len(all) : Cardinality(before(i)) = n - 1]]

\* The entries one mount appends to app.routes when no host call fails.
st_mount_entries(m, prefix) ==
    LET spec == m.spec
        http == [i \in 1..Len(m.routes) |->
                    LET rs == m.routes[i].spec
                        rs1 == [rs EXCEPT !.middleware = st_concat(spec.middleware, rs.middleware)]
                        rs2 == [rs1 EXCEPT !.path = st_get_path(prefix, spec, rs1)]
                    IN  st_Route(m.routes[i].fn, rs2)]
        ws == [i \in 1..Len(m.websocket_routes) |->
                    LET wsp == m.websocket_routes[i].spec
                        ws1 == [wsp EXCEPT !.path = st_get_path(prefix, spec, wsp)]
                    IN  st_WebSocketRoute(m.websocket_routes[i].fn, ws1)]
    IN  http \o ws

\* mount_router(app, router, prefix=prefix); the host call number `fail`
\* (0: none) raises.  The result is the exception and the host's route list.
\* Mutant: the route specifications are rewritten in place, without
\* dataclasses.replace.
st_mount_router_in_place(routes, c, prefix, fail) ==
    LET ins == st_inspect_router(c)
    IN  IF ins.raised # ""
        THEN [raised |-> ins.raised, app |-> routes, stored |-> Stored(c)]
        ELSE LET spec == Get(ins.value).spec
                 all == st_mount_entries(Get(ins.value), prefix)
                 rewritten ==
                    [i \in 1..Len(members[c]) |->
                        LET m == members[c][i]
                        IN  IF m.route_spec = None THEN m
                            ELSE [m EXCEPT !.route_spec =
                                    Some([Get(m.route_spec) EXCEPT
                                            !.path = st_get_path(prefix, spec, Get(m.route_spec))])]]
             IN  [raised |-> "", app |-> routes \o all,
                  stored |-> [router_spec |-> router_spec[c], members |-> rewritten]]

\* Mutant: a mount first drops the routes already registered for the same
\* handlers.
st_mount_router_replacing(routes, c, prefix, fail) ==
    LET ins == st_inspect_router(c)
    IN  IF ins.raised # ""
        THEN [raised |-> ins.raised, app |-> routes, stored |-> Stored(c)]
        ELSE LET all == st_mount_entries(Get(ins.value), prefix)
                 kept == SelectSeq(routes, LAMBDA r :
                            r.kind = "host" \/ \A i \in 1..Len(all) :
                                                   all[i].endpoint # r.endpoint)
             IN  [raised |-> "", app |-> kept \o all, stored |-> Stored(c)]

st_mount_router(routes, c, prefix, fail) ==
    LET ins == st_inspect_router(c)
    IN  IF ins.raised # ""
        THEN [raised |-> ins.raised, app |-> routes, stored |-> Stored(c)]
        ELSE LET all == st_mount_entries(Get(ins.value), prefix)
                 done == IF fail = 0 \/ fail > Len(all) THEN Len(all) ELSE fail - 1
             IN  [raised |-> IF done < Len(all) THEN "HostError" ELSE "",
                  app |-> routes \o SubSeq(all, 1, done), stored |-> Stored(c)]

-----------------------------------------------------------------------------
(* httprouter.fastapi *)

fa_WEBSOCKET(path, name) == [name |-> name, path |-> path]

fa_ROUTE(path, status_code, tags, responses, methods) ==
    [name |-> None, path |-> path, include_in_schema |-> TRUE,
     methods |-> methods, status_code |-> status_code, tags |-> tags,
     responses |-> responses, deprecated |-> None]

fa_GET(path, status_code, tags, responses, methods) ==
    fa_ROUTE(path, status_code, tags, responses, IF methods = None THEN <<"GET">> ELSE Get(methods))
fa_POST(path, status_code, tags, responses, methods) ==
    fa_ROUTE(path, status_code, tags, responses, IF methods = None THEN <<"POST">> ELSE Get(methods))
fa_PUT(path, status_code, tags, responses, methods) ==
    fa_ROUTE(path, status_code, tags, responses, IF methods = None THEN <<"PUT">> ELSE Get(methods))
\* Mutant: PATCH defaults to the method of the class it was copied from.
fa_PATCH_as_PUT(path, status_code, tags, responses, methods) ==
    fa_ROUTE(path, status_code, tags, responses, IF methods = None THEN <<"PUT">> ELSE Get(methods))

fa_PATCH(path, status_code, tags, responses, methods) ==
    fa_ROUTE(path, status_code, tags, responses, IF methods = None THEN <<"PATCH">> ELSE Get(methods))
fa_DELETE(path, status_code, tags, responses, methods) ==
    fa_ROUTE(path, status_code, tags, responses, IF methods = None THEN <<"DELETE">> ELSE Get(methods))

fa_decorator(d, path, status_code, tags, responses, methods) ==
    CASE d = "GET" -> fa_GET(path, status_code, tags, responses, methods)
      [] d = "POST" -> fa_POST(path, status_code, tags, responses, methods)
      [] d = "PUT" -> fa_PUT(path, status_code, tags, responses, methods)
      [] d = "PATCH" -> fa_PATCH(path, status_code, tags, responses, methods)
      [] d = "DELETE" -> fa_DELETE(path, status_code, tags, responses, methods)

fa_RouterSpec(prefix, tags, responses) ==
    [include_in_schema |-> TRUE, prefix |-> prefix, tags |-> tags,
     responses |-> responses, deprecated |-> None, dependencies |-> None,
     default_response_class |-> "Default(JSONResponse)"]

fa_RouterSpecDefault == fa_RouterSpec(<<>>, None, None)

fa_ROUTER(kwargs) ==
    [fa_RouterSpec(Kw(kwargs, "prefix", <<>>), Kw(kwargs, "tags", None),
                   Kw(kwargs, "responses", None))
        EXCEPT !.deprecated = Kw(kwargs, "deprecated", @),
               !.include_in_schema = Kw(kwargs, "include_in_schema", @),
               !.dependencies = Kw(kwargs, "dependencies", @),
               !.default_response_class = Kw(kwargs, "default_response_class", @)]

fa_find_router_spec(c) == router_spec[c]

\* Mutant: the search keeps the last match instead of returning the first.
fa_find_lifespan_last(c) ==
    LET sel == SelectSeq(getmembers(c), LAMBDA m : m.router_lifespan)
    IN  IF sel = <<>> THEN None ELSE Some(Handler(c, sel[Len(sel)]))

\* The first member, in getmembers order, that carries the lifespan marker.
fa_find_lifespan(c) ==
    LET sel == SelectSeq(getmembers(c), LAMBDA m : m.router_lifespan)
    IN  IF sel = <<>> THEN None ELSE Some(Handler(c, sel[1]))

fa_find_routes_from_router(c) ==
    LET sel == SelectSeq(getmembers(c), LAMBDA m : m.route_spec # None)
    IN  [i \in 1..Len(sel) |-> [fn |-> Handler(c, sel[i]), spec |-> Get(sel[i].route_spec)]]

fa_find_websocket_routes_from_router(c) ==
    LET sel == SelectSeq(getmembers(c), LAMBDA m : m.ws_route_spec # None)
    IN  [i \in 1..Len(sel) |-> [fn |-> Handler(c, sel[i]), spec |-> Get(sel[i].ws_route_spec)]]

fa_RouterMembers(spec, routes, websocket_routes, lifespan) ==
    [spec |-> spec, routes |-> routes, websocket_routes |-> websocket_routes,
     lifespan |-> lifespan]

fa_inspect_router(c) ==
    LET spec == fa_find_router_spec(c)
    IN  IF spec = None
        THEN [raised |-> "TypeError", value |-> None]
        ELSE [raised |-> "",
              value |-> Some(fa_RouterMembers(Get(spec),
                                              fa_find_routes_from_router(c),
                                              fa_find_websocket_routes_from_router(c),
                                              fa_find_lifespan(c)))]

\* The wrapper closes over the hook; building it runs nothing.
fa_make_lifespan_for_router(lifespan) ==
    IF lifespan = None THEN None
    ELSE Some([wrapper_of |-> Get(lifespan)])


\* Mutant: a route without a status code is registered with 200.
fa_add_api_route_status_200(fn, kw) ==
    [name |-> kw.name, kind |-> "api_route", path |-> kw.path,
     include_in_schema |-> kw.include_in_schema,
     methods |-> kw.methods, endpoint |-> fn,
     status_code |-> IF kw.status_code = None THEN Some(200) ELSE kw.status_code, tags |-> kw.tags,
     responses |-> kw.responses, deprecated |-> kw.deprecated]

\* api_router.add_api_route(endpoint=fn, **asdict(route_spec))
fa_add_api_route(fn, kw) ==
    [name |-> kw.name, kind |-> "api_route", path |-> kw.path,
     include_in_schema |-> kw.include_in_schema, methods |-> kw.methods, endpoint |-> fn,
     status_code |-> kw.status_code, tags |-> kw.tags,
     responses |-> kw.responses, deprecated |-> kw.deprecated]

\* api_router.add_api_websocket_route(endpoint=ws_fn, **asdict(ws_spec))
fa_add_api_websocket_route(fn, kw) ==
    [name |-> kw.name, kind |-> "api_websocket_route", path |-> kw.path, endpoint |-> fn]

\* APIRouter(lifespan=lifespan, **asdict(members.spec)) with its routes added.
fa_APIRouter(lifespan, kw, routes) ==
    [include_in_schema |-> kw.include_in_schema, prefix |-> kw.prefix, routes |-> routes,
     tags |-> kw.tags, responses |-> kw.responses,
     deprecated |-> kw.deprecated, dependencies |-> kw.dependencies,
     default_response_class |-> kw.default_response_class, lifespan |-> lifespan]

\* The keyword arguments of mount_router, with their defaults.
fa_MountArgs(prefix, tags, responses) ==
    [include_in_schema |-> TRUE, prefix |-> prefix, tags |-> tags,
     responses |-> responses, deprecated |-> None, dependencies |-> None,
     default_response_class |-> "Default(JSONResponse)"]

\* Mutant: the mount call's tags are joined to the router's before the call.
fa_include_router_merging(api_router, a) ==
    [kind |-> "include_router", include_in_schema |-> a.include_in_schema, prefix |-> a.prefix,
     tags |-> IF api_router.tags = None THEN a.tags
              ELSE IF a.tags = None THEN api_router.tags
              ELSE Some(Get(api_router.tags) \o Get(a.tags)),
     responses |-> a.responses, deprecated |-> a.deprecated,
     dependencies |-> a.dependencies, default_response_class |-> a.default_response_class,
     api_router |-> api_router]

\* app.include_router(api_router, prefix=prefix, tags=tags, ...)
fa_include_router(api_router, a) ==
    [kind |-> "include_router", include_in_schema |-> a.include_in_schema,
     prefix |-> a.prefix, tags |-> a.tags,
     responses |-> a.responses, deprecated |-> a.deprecated,
     dependencies |-> a.dependencies, default_response_class |-> a.default_response_class,
     api_router |-> api_router]

\* The body of the hook fn (a bound method).
BodyOf(fn) == Lookup(members[fn[1]], fn[2]).body

\* lifespan().__aenter__(): the hook fn runs up to its yield, or raises
\* before it gets there.  f holds the flags of the router instance.
hook_aenter(f, fn) ==
    IF BodyOf(fn) = "setup_raises"
    THEN [flags |-> [f EXCEPT !.entries = @ + 1, !.entered = @ \cup {fn[2]}],
          raised |-> TRUE]
    ELSE [flags |-> [f EXCEPT !.started = TRUE, !.entries = @ + 1,
                              !.entered = @ \cup {fn[2]}],
          raised |-> FALSE]

\* lifespan().__aexit__(exc): the hook is resumed, or thrown into, at its
\* yield; the finally block runs; the exception leaves the hook unless an
\* except clause of the hook handled it.
hook_aexit(f, fn, exc) ==
    [flags |-> [f EXCEPT !.stopped = TRUE, !.exits = @ + 1,
                         !.exited = @ \cup {fn[2]}],
     raised |-> exc /\ BodyOf(fn) # "except_pass"]

\* A wrapper the host holds: which hook it closes over (fn, a method of an
\* instance of class `of`), where it stands, how often it has entered and
\* exited the hook, and whether an exception left it.
Wrapper(fn) ==
    [raised |-> FALSE, fn |-> fn, entries |-> 0, exits |-> 0, pc |-> "new",
     of |-> fn[1]]
NoWrapper ==
    [raised |-> FALSE, fn |-> <<>>, entries |-> 0, exits |-> 0, pc |-> "none",
     of |-> ""]

\* wrapper(app).__aenter__(): `async with lifespan():` enters the hook, then
\* the wrapper yields to the host; an exception of the hook's setup leaves
\* the wrapper before its yield.
fa_wrapper_aenter(h, f) ==
    LET r == hook_aenter(f, h.fn)
    IN  [flags |-> r.flags,
         hook |-> [h EXCEPT !.pc = IF r.raised THEN "raised" ELSE "yielded",
                            !.entries = @ + 1, !.raised = r.raised]]

\* Mutant: the hook is entered and exited by hand, with no exit on the
\* exception path.
fa_wrapper_aexit_unprotected(h, f, exc) ==
    IF exc THEN [flags |-> f, hook |-> [h EXCEPT !.pc = "exited", !.raised = TRUE]]
    ELSE LET r == hook_aexit(f, h.fn, exc)
         IN  [flags |-> r.flags,
              hook |-> [h EXCEPT !.pc = "exited", !.exits = @ + 1,
                                 !.raised = r.raised]]

\* Mutant: the wrapper catches what the hook lets through.
fa_wrapper_aexit_suppressing(h, f, exc) ==
    LET r == hook_aexit(f, h.fn, exc)
    IN  [flags |-> r.flags,
         hook |-> [h EXCEPT !.pc = "exited", !.exits = @ + 1, !.raised = FALSE]]

\* wrapper.__aexit__(exc): the wrapper is resumed (exc = FALSE) or thrown into
\* (exc = TRUE) at its yield; either way control leaves the `async with`
\* block, which exits the hook; what the hook lets through leaves the
\* wrapper, and nothing else does.
fa_wrapper_aexit(h, f, exc) ==
    LET r == hook_aexit(f, h.fn, exc)
    IN  [flags |-> r.flags,
         hook |-> [h EXCEPT !.pc = "exited", !.exits = @ + 1, !.raised = r.raised]]

\* Mutant: the hook is entered while the wrapper is built.
fa_mount_router_eager(included, c, a, fail) ==
    LET ins == fa_inspect_router(c)
    IN  IF ins.raised # ""
        THEN [app |-> included, flags |-> flags, raised |-> ins.raised, stored |-> Stored(c)]
        ELSE LET m == Get(ins.value)
                 lifespan == fa_make_lifespan_for_router(m.lifespan)
                 http == [i \in 1..Len(m.routes) |->
                             fa_add_api_route(m.routes[i].fn, m.routes[i].spec)]
                 api_router == fa_APIRouter(lifespan, m.spec, http)
             IN  [app |-> Append(included, fa_include_router(api_router, a)),
                  flags |-> IF lifespan = None THEN flags
                            ELSE [flags EXCEPT ![c] = hook_aenter(@, Get(m.lifespan)).flags],
                  raised |-> "",
                  stored |-> Stored(c)]

\* Mutant: the router specification is looked up without being required.
fa_mount_router_unchecked(included, c, a, fail) ==
    LET spec == fa_find_router_spec(c)
        m == fa_RouterMembers(IF spec = None THEN fa_RouterSpecDefault ELSE Get(spec),
                              fa_find_routes_from_router(c),
                              fa_find_websocket_routes_from_router(c),
                              fa_find_lifespan(c))
        http == [i \in 1..Len(m.routes) |->
                    fa_add_api_route(m.routes[i].fn, m.routes[i].spec)]
        api_router == fa_APIRouter(fa_make_lifespan_for_router(m.lifespan), m.spec, http)
    IN  [app |-> Append(included, fa_include_router(api_router, a)), flags |-> flags,
         raised |-> IF spec = None THEN "TypeError" ELSE "",
         stored |-> Stored(c)]

\* Mutant: the sub-router is included first and filled afterwards.
fa_mount_router_include_first(included, c, a, fail) ==
    LET ins == fa_inspect_router(c)
    IN  IF ins.raised # ""
        THEN [app |-> included, flags |-> flags, raised |-> ins.raised, stored |-> Stored(c)]
        ELSE LET m == Get(ins.value)
                 lifespan == fa_make_lifespan_for_router(m.lifespan)
                 http == [i \in 1..Len(m.routes) |->
                             fa_add_api_route(m.routes[i].fn, m.routes[i].spec)]
                 ws == [i \in 1..Len(m.websocket_routes) |->
                             fa_add_api_websocket_route(m.websocket_routes[i].fn,
                                                        m.websocket_routes[i].spec)]
                 nbuild == Len(http) + Len(ws)
                 done == IF fail \in 1..nbuild THEN fail - 1 ELSE nbuild
                 api_router == fa_APIRouter(lifespan, m.spec, SubSeq(http \o ws, 1, done))
             IN  [app |-> Append(included, fa_include_router(api_router, a)),
                  flags |-> flags, raised |-> IF done < nbuild THEN "HostError" ELSE "",
                  stored |-> Stored(c)]

\* Mutant: a router already included is included again without its lifespan.
fa_mount_router_lifespan_once(included, c, a, fail) ==
    LET ins == fa_inspect_router(c)
    IN  IF ins.raised # ""
        THEN [app |-> included, flags |-> flags, raised |-> ins.raised, stored |-> Stored(c)]
        ELSE LET m == Get(ins.value)
                 seen == \E i \in 1..Len(included) :
                            /\ included[i].kind = "include_router"
                            /\ included[i].api_router.lifespan
                                  = fa_make_lifespan_for_router(m.lifespan)
                 lifespan == IF seen THEN None
                             ELSE fa_make_lifespan_for_router(m.lifespan)
                 http == [i \in 1..Len(m.routes) |->
                             fa_add_api_route(m.routes[i].fn, m.routes[i].spec)]
                 ws == [i \in 1..Len(m.websocket_routes) |->
                             fa_add_api_websocket_route(m.websocket_routes[i].fn,
                                                        m.websocket_routes[i].spec)]
                 api_router == fa_APIRouter(lifespan, m.spec, http \o ws)
             IN  [app |-> Append(included, fa_include_router(api_router, a)),
                  flags |-> flags, raised |-> "",
                  stored |-> Stored(c)]

\* mount_router(app, router, **a); the host call number `fail` (0: none)
\* raises.  The sub-router is local until include_router returns.
fa_mount_router(included, c, a, fail) ==
    LET ins == fa_inspect_router(c)
    IN  IF ins.raised # ""
        THEN [app |-> included, flags |-> flags, raised |-> ins.raised, stored |-> Stored(c)]
        ELSE LET m == Get(ins.value)
                 lifespan == fa_make_lifespan_for_router(m.lifespan)
                 http == [i \in 1..Len(m.routes) |->
                             fa_add_api_route(m.routes[i].fn, m.routes[i].spec)]
                 ws == [i \in 1..Len(m.websocket_routes) |->
                             fa_add_api_websocket_route(m.websocket_routes[i].fn,
                                                        m.websocket_routes[i].spec)]
                 api_router == fa_APIRouter(lifespan, m.spec, http \o ws)
                 nbuild == Len(http) + Len(ws)
             IN  IF fail \in 1..nbuild
                 THEN [app |-> included, flags |-> flags, raised |-> "HostError",
                       stored |-> Stored(c)]
                 ELSE [app |-> Append(included, fa_include_router(api_router, a)),
                       flags |-> flags, raised |-> "",
                       stored |-> Stored(c)]

-----------------------------------------------------------------------------
(* httprouter.litestar *)

ls_WEBSOCKET(path, name) == [name |-> name, path |-> path]

ls_ROUTE(path, http_method, status_code, responses, tags) ==
    [name |-> None, path |-> path, include_in_schema |-> Empty,
     middleware |-> None, status_code |-> status_code, tags |-> tags,
     responses |-> responses, http_method |-> http_method]

ls_GET(path, status_code, responses, tags, http_method) ==
    ls_ROUTE(path, IF http_method = None THEN "GET" ELSE Get(http_method), status_code, responses, tags)
ls_POST(path, status_code, responses, tags, http_method) ==
    ls_ROUTE(path, IF http_method = None THEN "POST" ELSE Get(http_method), status_code, responses, tags)
ls_PUT(path, status_code, responses, tags, http_method) ==
    ls_ROUTE(path, IF http_method = None THEN "PUT" ELSE Get(http_method), status_code, responses, tags)
ls_PATCH(path, status_code, responses, tags, http_method) ==
    ls_ROUTE(path, IF http_method = None THEN "PATCH" ELSE Get(http_method), status_code, responses, tags)
ls_DELETE(path, status_code, responses, tags, http_method) ==
    ls_ROUTE(path, IF http_method = None THEN "DELETE" ELSE Get(http_method), status_code, responses, tags)

ls_decorator(d, path, status_code, responses, tags, http_method) ==
    CASE d = "GET" -> ls_GET(path, status_code, responses, tags, http_method)
      [] d = "POST" -> ls_POST(path, status_code, responses, tags, http_method)
      [] d = "PUT" -> ls_PUT(path, status_code, responses, tags, http_method)
      [] d = "PATCH" -> ls_PATCH(path, status_code, responses, tags, http_method)
      [] d = "DELETE" -> ls_DELETE(path, status_code, responses, tags, http_method)

ls_RouterSpec(prefix, include_in_schema, tags, responses) ==
    [include_in_schema |-> include_in_schema, middleware |-> None,
     prefix |-> prefix, tags |-> tags, responses |-> responses]

ls_RouterSpecDefault == ls_RouterSpec(<<>>, Empty, None, None)

ls_ROUTER(kwargs) ==
    ls_RouterSpec(Kw(kwargs, "prefix", <<>>), Kw(kwargs, "include_in_schema", Empty),
                  Kw(kwargs, "tags", None), Kw(kwargs, "responses", None))

ls_find_router_spec(c) == router_spec[c]

\* Mutant: tests the websocket attribute instead of the route attribute.
ls_find_routes_wrong_attr(c) ==
    LET sel == SelectSeq(getmembers(c), LAMBDA m : m.ws_route_spec # None)
    IN  [i \in 1..Len(sel) |-> [fn |-> Handler(c, sel[i]), spec |-> Get(sel[i].ws_route_spec)]]

ls_find_routes_from_router(c) ==
    LET sel == SelectSeq(getmembers(c), LAMBDA m : m.route_spec # None)
    IN  [i \in 1..Len(sel) |-> [fn |-> Handler(c, sel[i]), spec |-> Get(sel[i].route_spec)]]

ls_find_websocket_routes_from_router(c) ==
    LET sel == SelectSeq(getmembers(c), LAMBDA m : m.ws_route_spec # None)
    IN  [i \in 1..Len(sel) |-> [fn |-> Handler(c, sel[i]), spec |-> Get(sel[i].ws_route_spec)]]

ls_RouterMembers(spec, routes, websocket_routes) ==
    [spec |-> spec, routes |-> routes, websocket_routes |-> websocket_routes]

ls_inspect_router(c) ==
    LET spec == ls_find_router_spec(c)
    IN  IF spec = None
        THEN [raised |-> "TypeError", value |-> None]
        ELSE [raised |-> "",
              value |-> Some(ls_RouterMembers(Get(spec),
                                              ls_find_routes_from_router(c),
                                              ls_find_websocket_routes_from_router(c)))]

\* {**a, **b}: a mapping is a function from its keys; b's value wins a tie.
ls_merge(a, b) ==
    IF a = None /\ b = None THEN None
    ELSE IF a = None THEN b
    ELSE IF b = None THEN a
    ELSE Some([k \in DOMAIN Get(a) \cup DOMAIN Get(b) |->
                  IF k \in DOMAIN Get(b) THEN Get(b)[k] ELSE Get(a)[k]])

Range(s) == {s[i] : i \in DOMAIN s}

\* list(S) of a set: its elements once each, in an order the runtime picks.
Orderings(S) ==
    {f \in [1..Cardinality(S) -> S] : \A i, j \in 1..Cardinality(S) : i # j => f[i] # f[j]}

\* The results concat_unique can return (list({*a, *b}) has no fixed order).
ls_concat_unique(a, b) ==
    IF a = None /\ b = None THEN {None}
    ELSE IF a = None THEN {b}
    ELSE IF b = None THEN {a}
    ELSE {Some(o) : o \in Orderings(Range(Get(a)) \cup Range(Get(b)))}

\* The keyword arguments of mount_router.
ls_MountArgs(prefix, responses, tags, include_in_schema) ==
    [include_in_schema |-> include_in_schema, prefix |-> prefix, tags |-> tags,
     responses |-> responses]

\* LitestarRouter(path=spec.prefix, route_handlers=[], **options) with the
\* handlers registered on it.
ls_LitestarRouter(path, options, handlers) ==
    [kind |-> "Router", path |-> path, include_in_schema |-> options.include_in_schema,
     middleware |-> options.middleware, tags |-> options.tags,
     route_handlers |-> handlers]

\* route(**options)(fn)
ls_route(fn, options) ==
    [kind |-> "route", fn |-> fn, path |-> options.path,
     http_method |-> options.http_method, status_code |-> options.status_code,
     include_in_schema |-> options.include_in_schema, name |-> options.name,
     middleware |-> options.middleware, responses |-> options.responses,
     tags |-> options.tags]

\* websocket(path=ws_spec.path, name=ws_spec.name)(ws_fn)
ls_websocket(fn, path, name) ==
    [kind |-> "websocket", fn |-> fn, path |-> path, name |-> name]

\* Mutant: the include_in_schema argument is assigned even when not given.
ls_mounted_spec_always_assigning(spec0, a, tags) ==
    LET s1 == [spec0 EXCEPT !.responses = ls_merge(a.responses, spec0.responses)]
        s2 == [s1 EXCEPT !.tags = tags]
        s3 == IF a.prefix # <<>>
              THEN [s2 EXCEPT !.prefix = rstrip(a.prefix, SLASH) \o <<SLASH>>
                                          \o lstrip(s2.prefix, SLASH)]
              ELSE s2
    IN  [s3 EXCEPT !.include_in_schema = a.include_in_schema]

\* Mutant: the tags are collected in a list shared by every mount call.
ls_mounted_spec_sharing(spec0, a, tags) ==
    LET prev == IF app = <<>> THEN None ELSE app[Len(app)].tags
        shared == IF prev = None THEN tags
                  ELSE IF tags = None THEN prev
                  ELSE Some(Get(prev) \o Get(tags))
        s1 == [spec0 EXCEPT !.responses = ls_merge(a.responses, spec0.responses)]
        s2 == [s1 EXCEPT !.tags = shared]
        s3 == IF a.prefix # <<>>
              THEN [s2 EXCEPT !.prefix = rstrip(a.prefix, SLASH) \o <<SLASH>>
                                          \o lstrip(s2.prefix, SLASH)]
              ELSE s2
    IN  IF a.include_in_schema # Empty
        THEN [s3 EXCEPT !.include_in_schema = a.include_in_schema]
        ELSE s3

\* The router-level specification as the mount call rewrites its copy.
ls_mounted_spec(spec0, a, tags) ==
    LET s1 == [spec0 EXCEPT !.responses = ls_merge(a.responses, spec0.responses)]
        s2 == [s1 EXCEPT !.tags = tags]
        s3 == IF a.prefix # <<>>
              THEN [s2 EXCEPT !.prefix = rstrip(a.prefix, SLASH) \o <<SLASH>>
                                          \o lstrip(s2.prefix, SLASH)]
              ELSE s2
    IN  IF a.include_in_schema # Empty
        THEN [s3 EXCEPT !.include_in_schema = a.include_in_schema]
        ELSE s3

\* The route handlers one mount registers on its LitestarRouter.
ls_mount_handlers(m, spec) ==
    LET http == [i \in 1..Len(m.routes) |->
                    LET rs == m.routes[i].spec
                        rs1 == [rs EXCEPT !.responses = ls_merge(spec.responses, rs.responses)]
                        options == [rs1 EXCEPT !.responses = spec.responses]
                    IN  ls_route(m.routes[i].fn, options)]
        ws == [i \in 1..Len(m.websocket_routes) |->
                    ls_websocket(m.websocket_routes[i].fn,
                                 m.websocket_routes[i].spec.path,
                                 m.websocket_routes[i].spec.name)]
    IN  http \o ws

\* mount_router(app, router, **a): the set of possible results (one for each
\* order concat_unique can return); the host call number `fail` (0: none)
\* raises.  The LitestarRouter is local until app.register returns.
ls_mount_router(registered, c, a, fail) ==
    LET ins == ls_inspect_router(c)
    IN  IF ins.raised # ""
        THEN {[raised |-> ins.raised, app |-> registered, stored |-> Stored(c)]}
        ELSE LET m == Get(ins.value)
             IN  {LET spec == ls_mounted_spec(m.spec, a, tags)
                      handlers == ls_mount_handlers(m, spec)
                      api_router == ls_LitestarRouter(spec.prefix, spec, handlers)
                  IN  IF fail \in 1..(Len(handlers) + 1)
                      THEN [raised |-> "HostError", app |-> registered,
                            stored |-> Stored(c)]
                      ELSE [raised |-> "", app |-> Append(registered, api_router),
                            stored |-> Stored(c)]
                  : tags \in ls_concat_unique(a.tags, m.spec.tags)}

-----------------------------------------------------------------------------
(* Decoration: what the decorators leave on a function or a class *)

\* setattr(fn, ROUTE_SPEC_ATTR, spec); the decorator returns fn itself.
set_route_spec(fn, d, only_path, spec) ==
    [fn EXCEPT !.decorator = d, !.only_path = only_path, !.route_spec = Some(spec)]

\* Mutant: the websocket decorator returns a wrapper around fn.
set_ws_route_spec_wrapping(fn, only_path, spec) ==
    [fn EXCEPT !.callable = "wrapper", !.decorator = "WEBSOCKET",
               !.only_path = only_path, !.ws_route_spec = Some(spec)]

\* setattr(fn, WS_ROUTE_SPEC_ATTR, spec); the decorator returns fn itself.
set_ws_route_spec(fn, only_path, spec) ==
    [fn EXCEPT !.decorator = "WEBSOCKET", !.only_path = only_path,
               !.ws_route_spec = Some(spec)]

\* LIFESPAN(method): asynccontextmanager(method) with the marker set on it.
LIFESPAN(fn) ==
    [fn EXCEPT !.callable = "asynccontextmanager(fn)", !.decorator = "LIFESPAN",
               !.router_lifespan = TRUE]

st_Decorated(Paths, Middlewares, Methods) ==
    {set_route_spec(PlainMember, d, mw = None /\ me = None,
                    st_decorator(d, p, None, mw, me))
        : d \in Method, p \in Paths, mw \in Middlewares, me \in Methods}

fa_Decorated(Paths, Codes, Tags, Responses, Methods) ==
    {set_route_spec(PlainMember, d,
                    sc = None /\ t = None /\ r = None /\ me = None,
                    fa_decorator(d, p, sc, t, r, me))
        : d \in Method, p \in Paths, sc \in Codes, t \in Tags, r \in Responses,
          me \in Methods}

ls_Decorated(Paths, Codes, Responses, Tags, Methods) ==
    {set_route_spec(PlainMember, d,
                    sc = None /\ t = None /\ r = None /\ me = None,
                    ls_decorator(d, p, sc, r, t, me))
        : d \in Method, p \in Paths, sc \in Codes, r \in Responses, t \in Tags,
          me \in Methods}

\* WEBSOCKET has the same two fields in the three modules.
ws_Decorated(Paths) ==
    {set_ws_route_spec(PlainMember, TRUE,
                       CASE variant = "starlette" -> st_WEBSOCKET(p, None)
                         [] variant = "fastapi" -> fa_WEBSOCKET(p, None)
                         [] variant = "litestar" -> ls_WEBSOCKET(p, None))
        : p \in Paths}

-----------------------------------------------------------------------------
(* Actions *)

Variants == {"starlette", "fastapi", "litestar"}

InitWith(V, Apps) ==
    /\ variant \in V
    /\ defined = [c \in Classes |-> FALSE]
    /\ class_decorator = [c \in Classes |-> None]
    /\ router_spec = [c \in Classes |-> None]
    /\ is_dataclass = [c \in Classes |-> FALSE]
    /\ members = [c \in Classes |-> <<>>]
    /\ app \in Apps
    /\ last = NoResult
    /\ calls = 0
    /\ host = [exc |-> FALSE, pc |-> "idle"]
    /\ hooks = [i \in 1..Len(app) |-> NoWrapper]
    /\ flags = [c \in Classes |-> [entries |-> 0, entered |-> {},
                                    started |-> FALSE, stopped |-> FALSE,
                                    exits |-> 0, exited |-> {}]]

\* Whether name n sorts before every name of the body.
Rank(n) == CHOOSE k \in 1..Len(SortedNames) : SortedNames[k] = n
SortsFirst(n, body) == \A i \in 1..Len(body) : Rank(n) < Rank(body[i].name)

\* The class body of c runs: one more method, decorated or not, is defined.
\* With AnyOrder the methods are declared in any order of their names,
\* without it in descending order of their names.
DefineMember(c, Choices, AnyOrder) ==
    /\ ~defined[c]
    /\ Len(members[c]) < MaxMembers
    /\ \E n \in Names, m \in Choices :
          /\ ~HasName(members[c], n)
          /\ AnyOrder \/ SortsFirst(n, members[c])
          /\ members' = [members EXCEPT ![c] = Append(@, [m EXCEPT !.name = n])]
    /\ UNCHANGED <<variant, defined, class_decorator, router_spec, is_dataclass, app, last, calls, host, hooks, flags>>

ROUTER(kwargs) ==
    CASE variant = "starlette" -> st_ROUTER(kwargs)
      [] variant = "fastapi" -> fa_ROUTER(kwargs)
      [] variant = "litestar" -> ls_ROUTER(kwargs)

\* The class statement of c completes: ROUTER, written as u, is applied to the
\* class, or the class is left undecorated (u = None).  _set_router_spec is
\* setattr(router, ROUTER_SPEC_ATTR, spec); ROUTER then returns dataclass(cls),
\* the same class with the generated methods.
FinishClass(c, Routers) ==
    /\ ~defined[c]
    /\ \E u \in Routers :
          /\ class_decorator' = [class_decorator EXCEPT ![c] = u]
          /\ router_spec' = [router_spec EXCEPT ![c] =
                                IF u = None THEN None ELSE Some(ROUTER(Get(u).kwargs))]
          /\ is_dataclass' = [is_dataclass EXCEPT ![c] = (u # None)]
    /\ defined' = [defined EXCEPT ![c] = TRUE]
    /\ UNCHANGED <<variant, members, app, last, calls, host, hooks, flags>>

inspect_router(c) ==
    CASE variant = "starlette" -> st_inspect_router(c)
      [] variant = "fastapi" -> fa_inspect_router(c)
      [] variant = "litestar" -> ls_inspect_router(c)

\* inspect_router(router) on an instance of c.
Inspect(c) ==
    /\ defined[c]
    /\ LET res == inspect_router(c)
       IN  last' = [op |-> "inspect", router |-> c, args |-> None, fail |-> 0,
                    raised |-> res.raised, value |-> res.value]
    /\ UNCHANGED <<variant, defined, class_decorator, router_spec, is_dataclass, members, app, calls, host, hooks,
                   flags>>

\* What every mount_router call does with its result.
Mounted(c, a, fail, res) ==
    /\ app' = res.app
    /\ last' = [op |-> "mount", router |-> c, args |-> a, fail |-> fail,
                raised |-> res.raised, value |-> None]
    /\ calls' = calls + 1
    /\ router_spec' = [router_spec EXCEPT ![c] = res.stored.router_spec]
    /\ members' = [members EXCEPT ![c] = res.stored.members]
    /\ UNCHANGED <<variant, defined, class_decorator, is_dataclass, host>>

\* The keyword argument of mount_router.
st_MountArgs(prefix) == [prefix |-> prefix]

\* mount_router(app, router, prefix=...) on an instance of c, as long as fewer
\* than Limit mount calls were made.
st_Mount(c, Prefixes, Fails, Limit) ==
    /\ variant = "starlette"
    /\ defined[c]
    /\ calls < Limit
    /\ \E prefix \in Prefixes, fail \in Fails :
          Mounted(c, st_MountArgs(prefix), fail, st_mount_router(app, c, prefix, fail))
    /\ UNCHANGED <<hooks, flags>>

\* The wrappers the host holds once include_router has added `registered`.
NewHooks(registered) ==
    [i \in 1..Len(registered) |->
        IF i <= Len(hooks) THEN hooks[i]
        ELSE IF registered[i].kind # "include_router" THEN NoWrapper
        ELSE IF registered[i].api_router.lifespan = None THEN NoWrapper
        ELSE Wrapper(Get(registered[i].api_router.lifespan).wrapper_of)]

fa_Mount(c, Args, Fails, Limit) ==
    /\ variant = "fastapi"
    /\ defined[c]
    /\ calls < Limit
    /\ host.pc = "idle"
    /\ \E a \in Args, fail \in Fails :
          LET res == fa_mount_router(app, c, a, fail)
          IN  /\ Mounted(c, a, fail, res)
              /\ hooks' = NewHooks(res.app)
              /\ flags' = res.flags

\* The host starts: it will enter the lifespan of every included router.
HostStartup ==
    /\ variant = "fastapi"
    /\ host.pc = "idle"
    /\ host' = [host EXCEPT !.pc = "startup"]
    /\ UNCHANGED <<variant, defined, class_decorator, router_spec, is_dataclass, members, app, last, calls, hooks, flags>>

\* The host enters the next wrapper, in the order of inclusion.  A wrapper
\* that raises ends the startup: the host unwinds the wrappers it entered.
WrapperEnter ==
    /\ host.pc = "startup"
    /\ \E i \in 1..Len(hooks) :
          /\ hooks[i].pc = "new"
          /\ \A j \in 1..(i - 1) : hooks[j].pc # "new"
          /\ LET r == fa_wrapper_aenter(hooks[i], flags[hooks[i].of])
             IN  /\ hooks' = [hooks EXCEPT ![i] = r.hook]
                 /\ flags' = [flags EXCEPT ![hooks[i].of] = r.flags]
                 /\ host' = IF r.hook.raised THEN [exc |-> TRUE, pc |-> "shutdown"]
                            ELSE host
    /\ UNCHANGED <<variant, defined, class_decorator, router_spec, is_dataclass, members, app, last, calls>>

\* Every wrapper has yielded: the host serves requests.
HostServing ==
    /\ host.pc = "startup"
    /\ \A i \in 1..Len(hooks) : hooks[i].pc # "new"
    /\ host' = [host EXCEPT !.pc = "serving"]
    /\ UNCHANGED <<variant, defined, class_decorator, router_spec, is_dataclass, members, app, last, calls, hooks, flags>>

\* Serving ends, normally or by an exception raised while serving.
ServeEnds(exc) ==
    /\ host.pc = "serving"
    /\ host' = [exc |-> exc, pc |-> "shutdown"]
    /\ UNCHANGED <<variant, defined, class_decorator, router_spec, is_dataclass, members, app, last, calls, hooks, flags>>

\* The host unwinds: it leaves the wrapper it entered last, handing it the
\* pending exception.
WrapperExit ==
    /\ host.pc = "shutdown"
    /\ \A j \in 1..Len(hooks) : hooks[j].pc # "exited"
    /\ \E i \in 1..Len(hooks) :
          /\ hooks[i].pc = "yielded"
          /\ \A j \in (i + 1)..Len(hooks) : hooks[j].pc # "yielded"
          /\ LET r == fa_wrapper_aexit(hooks[i], flags[hooks[i].of], host.exc)
             IN  /\ hooks' = [hooks EXCEPT ![i] = r.hook]
                 /\ flags' = [flags EXCEPT ![hooks[i].of] = r.flags]
    /\ UNCHANGED <<variant, defined, class_decorator, router_spec, is_dataclass, members, app, last, calls, host>>

\* The wrapper returns to the host, or raises to it: the exception that left
\* the wrapper, if any, is the one the host goes on unwinding with.
WrapperReturn ==
    /\ host.pc = "shutdown"
    /\ \E i \in 1..Len(hooks) :
          /\ hooks[i].pc = "exited"
          /\ hooks' = [hooks EXCEPT ![i].pc = "returned"]
          /\ host' = [host EXCEPT !.exc = hooks[i].raised]
    /\ UNCHANGED <<variant, defined, class_decorator, router_spec, is_dataclass, members, app, last, calls, flags>>

\* Every wrapper has returned: the host's own lifecycle ends.
HostStopped ==
    /\ host.pc = "shutdown"
    /\ \A i \in 1..Len(hooks) : hooks[i].pc \in {"none", "returned", "raised"}
    /\ host' = [host EXCEPT !.pc = IF host.exc THEN "failed" ELSE "stopped"]
    /\ UNCHANGED <<variant, defined, class_decorator, router_spec, is_dataclass, members, app, last, calls, hooks, flags>>

ls_Mount(c, Args, Fails, Limit) ==
    /\ variant = "litestar"
    /\ defined[c]
    /\ calls < Limit
    /\ \E a \in Args, fail \in Fails :
          \E res \in ls_mount_router(app, c, a, fail) : Mounted(c, a, fail, res)
    /\ UNCHANGED <<hooks, flags>>

-----------------------------------------------------------------------------
(* The program: classes are written, then inspected and mounted *)

PathX == <<"/", "x">>
PathWs == <<"/", "w", "s">>
PathApi == <<"/", "a", "p", "i">>
PathV1 == <<"/", "v", "1">>

MainChoices ==
    {PlainMember} \cup ws_Decorated({PathWs}) \cup
    CASE variant = "starlette" ->
            {m \in st_Decorated({PathX}, {None}, {None, Some(<<"PUT">>)})
                : m.only_path \/ m.decorator = "GET"}
      [] variant = "fastapi" ->
            {m \in fa_Decorated({PathX}, {None}, {None}, {None}, {None, Some(<<"PUT">>)})
                : m.only_path \/ m.decorator = "GET"}
            \cup {LIFESPAN(HookMethod("try_finally"))}
      [] variant = "litestar" ->
            {m \in ls_Decorated({PathX}, {None}, {None}, {None}, {None, Some("PUT")})
                : m.only_path \/ m.decorator = "GET"}

\* No decorator, @ROUTER, @ROUTER() and @ROUTER(prefix="/api").
MainRouters == {None, Bare, Called(<<>>), Called([prefix |-> PathApi])}

MainPrefixes == {PathV1}

MainClasses == {"A"}

Init == InitWith(Variants, {<<>>, <<HostRoute>>})

Next ==
    \/ \E c \in MainClasses : DefineMember(c, MainChoices, FALSE)
    \/ \E c \in MainClasses : FinishClass(c, MainRouters)
    \/ \E c \in MainClasses : Inspect(c)
    \/ \E c \in MainClasses : st_Mount(c, MainPrefixes, {0}, MaxMounts)
    \/ \E c \in MainClasses :
          fa_Mount(c, {fa_MountArgs(p, None, None) : p \in MainPrefixes}, {0}, MaxMounts)
    \/ \E c \in MainClasses :
          ls_Mount(c, {ls_MountArgs(p, None, None, Empty) : p \in MainPrefixes}, {0},
                   MaxMounts)

Spec == Init /\ [][Next]_vars

-----------------------------------------------------------------------------
(* Starlette path composition: every slash variation of "api", "v1", "x" *)

\* w alone, and with a leading and/or a trailing slash.
SlashVariants(w) ==
    {w, <<SLASH>> \o w, w \o <<SLASH>>, <<SLASH>> \o w \o <<SLASH>>}

SegApi == <<"a", "p", "i">>
SegV1 == <<"v", "1">>
SegX == <<"x">>

PathChoices ==
    {m \in st_Decorated(SlashVariants(SegX), {None}, {None}) : m.decorator = "GET"}

PathRouters == {Called([prefix |-> p]) : p \in SlashVariants(SegV1)}

InitPath == InitWith({"starlette"}, {<<>>})

NextPath ==
    \/ DefineMember("A", PathChoices, FALSE)
    \/ FinishClass("A", PathRouters)
    \/ st_Mount("A", SlashVariants(SegApi), {0}, 1)

SpecPath == InitPath /\ [][NextPath]_vars

-----------------------------------------------------------------------------
(* Litestar merging: router-level and mount-call tags and responses *)

TagChoices ==
    {None, Some(<<"a", "b">>), Some(<<"b", "c">>), Some(<<"a", "a">>)}

\* Mappings from a status code to a ResponseSpec (named by a string).
ResponseChoices ==
    {None, Some([k \in {401} |-> "Unauthorized"]),
     Some([k \in {401, 404} |-> IF k = 401 THEN "Denied" ELSE "NotFound"])}

MergeChoices ==
    {m \in ls_Decorated({PathX}, {None}, {None, Some([k \in {401} |-> "Own"])},
                        {None}, {None}) : m.decorator = "GET"}

MergeRouters ==
    {Called([prefix |-> PathApi, tags |-> t, responses |-> r])
        : t \in TagChoices, r \in ResponseChoices}

MergeArgs ==
    {ls_MountArgs(<<>>, r, t, Empty) : r \in ResponseChoices, t \in TagChoices}

InitMerge == InitWith({"litestar"}, {<<>>})

NextMerge ==
    \/ DefineMember("A", MergeChoices, FALSE)
    \/ FinishClass("A", MergeRouters)
    \/ ls_Mount("A", MergeArgs, {0}, 1)

SpecMerge == InitMerge /\ [][NextMerge]_vars

-----------------------------------------------------------------------------
(* Starlette middleware: router-level and route-level lists *)

MiddlewareChoices ==
    {None, Some(<<"m1">>), Some(<<"m1", "m2">>), Some(<<"m2", "m2">>)}

MwChoices ==
    {m \in st_Decorated({PathX}, MiddlewareChoices, {None}) : m.decorator = "GET"}
    \cup ws_Decorated({PathWs})

MwRouters == {Called([middleware |-> mw, prefix |-> PathApi]) : mw \in MiddlewareChoices}

InitMw == InitWith({"starlette"}, {<<>>})

NextMw ==
    \/ DefineMember("A", MwChoices, FALSE)
    \/ FinishClass("A", MwRouters)
    \/ st_Mount("A", {<<>>}, {0}, 1)

SpecMw == InitMw /\ [][NextMw]_vars

-----------------------------------------------------------------------------
(* FastAPI lifespan: a router with a lifespan hook, mounted and run *)

LifeChoices ==
    {PlainMember, LIFESPAN(HookMethod("try_finally"))}
    \cup {m \in fa_Decorated({PathX}, {None}, {None}, {None}, {None}) : m.decorator = "GET"}

LifeRouters == {Bare, Called([prefix |-> PathApi])}

InitLife == InitWith({"fastapi"}, {<<>>, <<HostRoute>>})

NextLife ==
    \/ DefineMember("A", LifeChoices, FALSE)
    \/ FinishClass("A", LifeRouters)
    \/ fa_Mount("A", {fa_MountArgs(<<>>, None, None)}, {0}, MaxMounts)
    \/ HostStartup
    \/ WrapperEnter
    \/ HostServing
    \/ \E exc \in BOOLEAN : ServeEnds(exc)
    \/ WrapperExit
    \/ WrapperReturn
    \/ HostStopped

SpecLife == InitLife /\ [][NextLife]_vars

-----------------------------------------------------------------------------
(* Mounting again: the same router mounted several times, with any arguments *)

RemountChoices ==
    {PlainMember} \cup ws_Decorated({PathWs}) \cup
    CASE variant = "starlette" ->
            {m \in st_Decorated({PathX}, {None}, {None}) : m.decorator = "GET"}
      [] variant = "fastapi" ->
            {m \in fa_Decorated({PathX}, {None}, {None}, {None}, {None}) : m.decorator = "GET"}
      [] variant = "litestar" ->
            {m \in ls_Decorated({PathX}, {None}, {None}, {None}, {None}) : m.decorator = "GET"}

RemountRouters == {Bare, Called([prefix |-> PathApi])}

RemountPrefixes == {<<>>, PathV1}
RemountTags == {None, Some(<<"a">>)}
RemountResponses == {None, Some([k \in {401} |-> "Denied"])}

InitRemount == InitWith(Variants, {<<>>})

NextRemount ==
    \/ DefineMember("A", RemountChoices, FALSE)
    \/ FinishClass("A", RemountRouters)
    \/ Inspect("A")
    \/ st_Mount("A", RemountPrefixes, {0}, MaxMounts)
    \/ fa_Mount("A", {fa_MountArgs(p, t, r) : p \in RemountPrefixes, t \in RemountTags,
                                               r \in RemountResponses}, {0}, MaxMounts)
    \/ ls_Mount("A", {ls_MountArgs(p, r, t, Empty) : p \in RemountPrefixes,
                                                      r \in RemountResponses,
                                                      t \in RemountTags}, {0}, MaxMounts)

SpecRemount == InitRemount /\ [][NextRemount]_vars

-----------------------------------------------------------------------------
(* Websocket routes: HTTP and websocket handlers declared at the same paths *)

WsChoices ==
    ws_Decorated({PathWs, PathX}) \cup
    CASE variant = "starlette" ->
            {m \in st_Decorated({PathWs, PathX}, {None}, {None}) : m.decorator = "GET"}
      [] variant = "fastapi" ->
            {m \in fa_Decorated({PathWs, PathX}, {None}, {None}, {None}, {None})
                : m.decorator = "GET"}
      [] variant = "litestar" ->
            {m \in ls_Decorated({PathWs, PathX}, {None}, {None}, {None}, {None})
                : m.decorator = "GET"}

WsRouters == {Bare, Called([prefix |-> PathApi])}

InitWs == InitWith(Variants, {<<>>})

NextWs ==
    \/ DefineMember("A", WsChoices, FALSE)
    \/ FinishClass("A", WsRouters)
    \/ st_Mount("A", {<<>>, PathV1}, {0}, 1)
    \/ fa_Mount("A", {fa_MountArgs(p, None, None) : p \in {<<>>, PathV1}}, {0}, 1)
    \/ ls_Mount("A", {ls_MountArgs(p, None, None, Empty) : p \in {<<>>, PathV1}}, {0}, 1)

SpecWs == InitWs /\ [][NextWs]_vars

-----------------------------------------------------------------------------
(* FastAPI route options: status codes, tags and responses on the routes *)

OptionChoices ==
    {m \in fa_Decorated({PathX}, {None, Some(202)}, {None, Some(<<"t">>)},
                        {None, Some([k \in {401} |-> "Own"])}, {None})
        : m.decorator \in {"GET", "POST"}}

OptionRouters ==
    {Bare, Called([prefix |-> PathApi, tags |-> Some(<<"a">>),
                   responses |-> Some([k \in {401} |-> "Unauthorized"])])}

InitOption == InitWith({"fastapi"}, {<<>>})

NextOption ==
    \/ DefineMember("A", OptionChoices, FALSE)
    \/ FinishClass("A", OptionRouters)
    \/ fa_Mount("A", {fa_MountArgs(p, t, None) : p \in {<<>>, PathV1},
                                                 t \in {None, Some(<<"b">>)}}, {0}, 1)

SpecOption == InitOption /\ [][NextOption]_vars

-----------------------------------------------------------------------------
(* Litestar host router: its path and its include_in_schema *)

SchemaChoices == {Empty, Some(TRUE), Some(FALSE)}

LsRouterChoices ==
    {m \in ls_Decorated({PathX}, {None}, {None}, {None}, {None}) : m.decorator = "GET"}

LsRouters ==
    {Bare} \cup
    {Called([include_in_schema |-> i, prefix |-> p])
        : p \in SlashVariants(SegV1) \cup {<<>>, <<SLASH, SLASH>> \o SegV1},
          i \in SchemaChoices}

LsRouterArgs ==
    {ls_MountArgs(p, None, None, i)
        : p \in SlashVariants(SegApi) \cup {<<>>, <<SLASH>> \o SegApi \o <<SLASH, SLASH>>},
          i \in SchemaChoices}

InitLsRouter == InitWith({"litestar"}, {<<>>})

NextLsRouter ==
    \/ DefineMember("A", LsRouterChoices, FALSE)
    \/ FinishClass("A", LsRouters)
    \/ ls_Mount("A", LsRouterArgs, {0}, 1)

SpecLsRouter == InitLsRouter /\ [][NextLsRouter]_vars

-----------------------------------------------------------------------------
(* Discovery order: methods declared in any order of their names *)

OrderChoices ==
    {PlainMember} \cup ws_Decorated({PathWs}) \cup
    CASE variant = "starlette" ->
            {m \in st_Decorated({PathX}, {None}, {None}) : m.decorator = "GET"}
      [] variant = "fastapi" ->
            {m \in fa_Decorated({PathX}, {None}, {None}, {None}, {None}) : m.decorator = "GET"}
      [] variant = "litestar" ->
            {m \in ls_Decorated({PathX}, {None}, {None}, {None}, {None}) : m.decorator = "GET"}

InitOrder == InitWith(Variants, {<<>>})

NextOrder ==
    \/ DefineMember("A", OrderChoices, TRUE)
    \/ FinishClass("A", {Bare})
    \/ Inspect("A")
    \/ st_Mount("A", {<<>>}, {0}, 1)
    \/ fa_Mount("A", {fa_MountArgs(<<>>, None, None)}, {0}, 1)
    \/ ls_Mount("A", {ls_MountArgs(<<>>, None, None, Empty)}, {0}, 1)

SpecOrder == InitOrder /\ [][NextOrder]_vars

-----------------------------------------------------------------------------
(* FastAPI lifespan hooks that fail: in their setup, or handed an exception *)

HookChoices == {LIFESPAN(HookMethod(b)) : b \in HookBodies}

HookRouters == {Bare}

InitHook == InitWith({"fastapi"}, {<<>>})

NextHook ==
    \/ DefineMember("A", HookChoices, FALSE)
    \/ DefineMember("B", {LIFESPAN(HookMethod("try_finally"))}, FALSE)
    \/ \E c \in Classes : FinishClass(c, HookRouters)
    \/ \E c \in Classes :
          fa_Mount(c, {fa_MountArgs(<<>>, None, None)}, {0}, MaxMounts)
    \/ HostStartup
    \/ WrapperEnter
    \/ HostServing
    \/ \E exc \in BOOLEAN : ServeEnds(exc)
    \/ WrapperExit
    \/ WrapperReturn
    \/ HostStopped

SpecHook == InitHook /\ [][NextHook]_vars

-----------------------------------------------------------------------------
(* FastAPI composition: every option given at both levels *)

IncludeChoices ==
    ws_Decorated({PathWs}) \cup
    {m \in fa_Decorated({PathX}, {None}, {None, Some(<<"t">>)}, {None}, {None})
        : m.decorator = "GET"}

\* A dependency is a Depends(...) object, named by a string.
IncludeRouters ==
    {Bare,
     Called([tags |-> Some(<<"a">>)]),
     Called([include_in_schema |-> FALSE, prefix |-> PathApi,
             tags |-> Some(<<"a">>),
             responses |-> Some([k \in {401} |-> "Unauthorized"]), deprecated |-> Some(TRUE),
             dependencies |-> Some(<<"Depends(a)">>),
             default_response_class |-> "HTMLResponse"])}

IncludeArgs ==
    {[fa_MountArgs(p, t, r) EXCEPT !.deprecated = d, !.include_in_schema = i,
                                   !.dependencies = dep,
                                   !.default_response_class = k]
        : p \in {<<>>, PathV1}, t \in {None, Some(<<"a", "b">>)},
          r \in {None, Some([k \in {401} |-> "Denied"])},
          d \in {None, Some(FALSE)}, i \in BOOLEAN,
          dep \in {None, Some(<<"Depends(b)">>)},
          k \in {"Default(JSONResponse)", "PlainTextResponse"}}

InitInclude == InitWith({"fastapi"}, {<<>>, <<HostRoute>>})

NextInclude ==
    \/ DefineMember("A", IncludeChoices, FALSE)
    \/ FinishClass("A", IncludeRouters)
    \/ fa_Mount("A", IncludeArgs, {0}, 1)

SpecInclude == InitInclude /\ [][NextInclude]_vars

-----------------------------------------------------------------------------
(* Two routers on one host: each with its own prefix, tags and responses *)

TwoChoices ==
    ws_Decorated({PathWs}) \cup
    CASE variant = "starlette" ->
            {m \in st_Decorated({PathX}, {None}, {None}) : m.decorator = "GET"}
      [] variant = "fastapi" ->
            {m \in fa_Decorated({PathX}, {None}, {None}, {None}, {None}) : m.decorator = "GET"}
      [] variant = "litestar" ->
            {m \in ls_Decorated({PathX}, {None}, {None}, {None}, {None}) : m.decorator = "GET"}

\* Router A: prefix "/api", tag "a", response 401; router B: prefix "/v1",
\* tag "b", response 404 (Starlette routers have a prefix and middleware).
TwoRouters(c) ==
    LET prefix == IF c = "A" THEN PathApi ELSE PathV1
        tag == IF c = "A" THEN "a" ELSE "b"
        code == IF c = "A" THEN 401 ELSE 404
    IN  IF variant = "starlette"
        THEN {Called([middleware |-> Some(<<tag>>), prefix |-> prefix])}
        ELSE {Called([prefix |-> prefix, tags |-> Some(<<tag>>),
                      responses |-> Some([k \in {code} |-> tag])])}

InitTwo == InitWith(Variants, {<<>>})

NextTwo ==
    \/ \E c \in Classes : DefineMember(c, TwoChoices, FALSE)
    \/ \E c \in Classes : FinishClass(c, TwoRouters(c))
    \/ \E c \in Classes : st_Mount(c, {<<>>}, {0}, MaxMounts)
    \/ \E c \in Classes : fa_Mount(c, {fa_MountArgs(<<>>, None, None)}, {0}, MaxMounts)
    \/ \E c \in Classes :
          ls_Mount(c, {ls_MountArgs(<<>>, None, t, Empty) : t \in {None, Some(<<"m">>)}},
                   {0}, MaxMounts)

SpecTwo == InitTwo /\ [][NextTwo]_vars

-----------------------------------------------------------------------------
(* Host calls that raise: any one call of a mount into the host fails *)

\* Which call into the host raises (0: none): one more than a class has
\* handlers reaches every call of a mount.
FailAt == 0..(MaxMembers + 1)

FailChoices ==
    ws_Decorated({PathWs}) \cup
    CASE variant = "starlette" ->
            {m \in st_Decorated({PathX}, {None}, {None}) : m.decorator = "GET"}
      [] variant = "fastapi" ->
            {m \in fa_Decorated({PathX}, {None}, {None}, {None}, {None}) : m.decorator = "GET"}
            \cup {LIFESPAN(HookMethod("try_finally"))}
      [] variant = "litestar" ->
            {m \in ls_Decorated({PathX}, {None}, {None}, {None}, {None}) : m.decorator = "GET"}

FailRouters == {Bare, Called([prefix |-> PathApi])}

InitFail == InitWith(Variants, {<<>>, <<HostRoute>>})

NextFail ==
    \/ DefineMember("A", FailChoices, FALSE)
    \/ FinishClass("A", FailRouters)
    \/ st_Mount("A", {PathV1}, FailAt, MaxMounts)
    \/ fa_Mount("A", {fa_MountArgs(PathV1, None, None)}, FailAt, MaxMounts)
    \/ ls_Mount("A", {ls_MountArgs(PathV1, None, None, Empty)}, FailAt, MaxMounts)

SpecFail == InitFail /\ [][NextFail]_vars

-----------------------------------------------------------------------------
(* What the host holds *)

\* The handlers (bound methods) fns, a sequence, are in ascending order of
\* their member names.
Ascending(fns) ==
    \A i, j \in 1..Len(fns) : i < j => Rank(fns[i][2]) < Rank(fns[j][2])

\* The handlers of the entries of a given kind, in the order of the entries.
EndpointsOf(entries, kind) ==
    LET sel == SelectSeq(entries, LAMBDA e : e.kind = kind)
    IN  [i \in 1..Len(sel) |-> IF variant = "litestar" THEN sel[i].fn ELSE sel[i].endpoint]

\* The path a handler was declared with, by its decorator.
DeclaredPath(fn) ==
    LET m == Lookup(members[fn[1]], fn[2])
    IN  IF m.route_spec # None THEN Get(m.route_spec).path ELSE Get(m.ws_route_spec).path

\* The entries a mount_router call added to the host.
Added(before, after) == SubSeq(after, Len(before) + 1, Len(after))

\* The last n entries of the host.
LastEntries(a, n) == SubSeq(a, Len(a) - n + 1, Len(a))

\* The paths registered by a run of entries: of each route in Starlette, of
\* the sub-router and of each of its routes in FastAPI and Litestar.
Paths(entries) ==
    [i \in 1..Len(entries) |->
        CASE variant = "starlette" -> entries[i].path
          [] variant = "fastapi" ->
                <<entries[i].prefix, entries[i].api_router.prefix,
                  [k \in 1..Len(entries[i].api_router.routes) |->
                      entries[i].api_router.routes[k].path]>>
          [] variant = "litestar" ->
                <<entries[i].path,
                  [k \in 1..Len(entries[i].route_handlers) |->
                      entries[i].route_handlers[k].path]>>]

\* The elements of an optional list (None: none).
Elements(o) == IF o = None THEN {} ELSE Range(Get(o))

\* The keys of an optional mapping (None: none).
Keys(o) == IF o = None THEN {} ELSE DOMAIN Get(o)

\* Every HTTP route registered on the host, in the three shapes.
RegisteredRoutes ==
    CASE variant = "starlette" ->
            {app[i] : i \in {j \in 1..Len(app) : app[j].kind = "Route"}}
      [] variant = "fastapi" ->
            UNION {{r \in Range(app[i].api_router.routes) : r.kind = "api_route"}
                      : i \in {j \in 1..Len(app) : app[j].kind = "include_router"}}
      [] variant = "litestar" ->
            UNION {{r \in Range(app[i].route_handlers) : r.kind = "route"}
                      : i \in {j \in 1..Len(app) : app[j].kind = "Router"}}

\* The handler and the HTTP methods of a registered route.
RouteEndpoint(r) == IF variant = "litestar" THEN r.fn ELSE r.endpoint
RouteMethods(r) == IF variant = "litestar" THEN <<r.http_method>> ELSE r.methods

\* The HTTP methods a route specification holds.
SpecMethods(rs) == IF variant = "litestar" THEN <<rs.http_method>> ELSE rs.methods

-----------------------------------------------------------------------------
(* Claims *)

\* C1: inspect_router on an instance whose class carries no router
\* specification raises TypeError and returns no router-members record, in
\* each of the three modules.
C1_InspectUndecoratedRaises ==
    (last.op = "inspect" /\ router_spec[last.router] = None)
        => (last.raised = "TypeError" /\ last.value = None)

C1_Witness ==
    /\ last.op = "inspect"
    /\ router_spec[last.router] = None
    /\ last.raised = "TypeError"
    /\ \E i \in 1..Len(members[last.router]) :
          members[last.router][i].route_spec # None

\* C2: a mount_router call on an instance without a router specification
\* raises and leaves the host's registrations and lifespan hooks exactly as
\* they were before the call.
C2_MountUndecoratedChangesNothing ==
    [][(calls' = calls + 1 /\ router_spec[last'.router] = None)
          => (last'.raised = "TypeError" /\ app' = app /\ hooks' = hooks)]_vars

C2_Witness ==
    /\ last.op = "mount"
    /\ router_spec[last.router] = None
    /\ last.raised = "TypeError"
    /\ app # <<>>
    /\ \E i \in 1..Len(members[last.router]) :
          members[last.router][i].route_spec # None

\* C3: for a ROUTER-decorated class, inspect_router returns in `routes`
\* exactly one entry for each method that carries an HTTP-method decorator,
\* paired with the specification attached to that method, and no entry for
\* any other member.
C3_RoutesAreTheDecoratedMethods ==
    (last.op = "inspect" /\ last.raised = "") =>
        LET c == last.router
            routes == Get(last.value).routes
            body == members[c]
        IN  /\ \A i \in 1..Len(body) :
                  body[i].decorator \in Method =>
                      /\ Cardinality({k \in 1..Len(routes) :
                                         routes[k].fn = <<c, body[i].name>>}) = 1
                      /\ \A k \in 1..Len(routes) :
                            routes[k].fn = <<c, body[i].name>>
                                => routes[k].spec = Get(body[i].route_spec)
            /\ \A k \in 1..Len(routes) :
                  \E i \in 1..Len(body) :
                      /\ body[i].decorator \in Method
                      /\ routes[k].fn = <<c, body[i].name>>

C3_Witness ==
    /\ last.op = "inspect"
    /\ last.raised = ""
    /\ Len(Get(last.value).routes) = 1
    /\ Len(members[last.router]) = 2
    /\ members[last.router][1].decorator = "POST"
    /\ members[last.router][2].decorator = "WEBSOCKET"

\* C4: in the Starlette module the path registered for a route is
\* "/api/v1/x" whatever leading or trailing slashes the mount prefix "api",
\* the router prefix "v1" and the route path "x" are written with.
C4_PathIsNormalised ==
    \A r \in RegisteredRoutes :
        r.path = <<"/", "a", "p", "i", "/", "v", "1", "/", "x">>

\* C5: in the Litestar module the tags given to the host router are the set
\* union of the router-level tags and the mount-call tags (either possibly
\* absent): every tag of either source, none more than once.
C5_TagsAreTheUnion ==
    (last.op = "mount" /\ last.raised = "") =>
        LET tags == app[Len(app)].tags
            union == Elements(last.args.tags)
                        \cup Elements(Get(router_spec[last.router]).tags)
        IN  /\ Elements(tags) = union
            /\ tags # None => Len(Get(tags)) = Cardinality(union)

\* C6: in the Litestar module, a response key given both to mount_router and
\* to ROUTER is registered with the mount-call value; a key of one source
\* only keeps its value.
C6_MountResponsesWin ==
    (last.op = "mount" /\ last.raised = "") =>
        LET mount == last.args.responses
            router == Get(router_spec[last.router]).responses
        IN  \A r \in Range(app[Len(app)].route_handlers) :
                r.kind = "route" =>
                    /\ Keys(r.responses) = Keys(mount) \cup Keys(router)
                    /\ \A k \in Keys(mount) : Get(r.responses)[k] = Get(mount)[k]
                    /\ \A k \in Keys(router) \ Keys(mount) :
                          Get(r.responses)[k] = Get(router)[k]

\* C7: in the Starlette module the middleware of a registered HTTP route is
\* the router-level list followed by the route's own list, every element of
\* both kept in order, duplicates kept; one list absent gives the other, both
\* absent give none.
C7_MiddlewareIsRouterThenRoute ==
    (last.op = "mount" /\ last.raised = "") =>
        \A k \in 1..Len(app) : \A i \in 1..Len(members[last.router]) :
            LET m == members[last.router][i]
                a == Get(router_spec[last.router]).middleware
            IN  (app[k].kind = "Route" /\ app[k].endpoint = <<last.router, m.name>>) =>
                    LET b == Get(m.route_spec).middleware
                        res == app[k].middleware
                    IN  /\ (a = None /\ b = None) => res = None
                        /\ (a = None /\ b # None) => res = b
                        /\ (a # None /\ b = None) => res = a
                        /\ (a # None /\ b # None) =>
                              /\ res # None
                              /\ Len(Get(res)) = Len(Get(a)) + Len(Get(b))
                              /\ \A j \in 1..Len(Get(a)) : Get(res)[j] = Get(a)[j]
                              /\ \A j \in 1..Len(Get(b)) :
                                    Get(res)[Len(Get(a)) + j] = Get(b)[j]

C7_Witness ==
    /\ last.op = "mount"
    /\ last.raised = ""
    /\ \E k \in 1..Len(app) :
          /\ app[k].kind = "Route"
          /\ app[k].middleware = Some(<<"m2", "m2", "m1", "m2">>)

\* C8: in the FastAPI module mount_router does not enter the lifespan hook:
\* until the host starts, whatever was mounted, the hook's setup has not run
\* and the started flag is false.
C8_MountDoesNotEnterLifespan ==
    host.pc = "idle" =>
        /\ \A c \in Classes :
              /\ ~flags[c].started
              /\ flags[c].entries = 0
        /\ \A i \in 1..Len(hooks) : hooks[i].pc \in {"none", "new"}

C8_Witness ==
    /\ host.pc = "idle"
    /\ last.op = "mount"
    /\ last.raised = ""
    /\ app[Len(app)].api_router.lifespan # None
    /\ hooks[Len(hooks)].pc = "new"
    /\ ~flags[last.router].started

\* C9: in the FastAPI module, a wrapper the host has entered exits the
\* router's hook exactly once, whether serving ended normally or by an
\* exception, and has done so when it returns to the host: never twice, and
\* never zero times once the wrapper has returned.
C9_TeardownExactlyOnce ==
    \A i \in 1..Len(hooks) :
        /\ hooks[i].exits <= 1
        /\ hooks[i].exits <= hooks[i].entries
        /\ hooks[i].pc = "returned" => (hooks[i].entries = 1 /\ hooks[i].exits = 1)
        /\ (host.pc \in {"stopped", "failed"} /\ hooks[i].entries = 1)
              => (hooks[i].exits = 1 /\ flags[hooks[i].of].stopped)

C9_Witness ==
    /\ host.pc = "failed"
    /\ host.exc
    /\ \E i \in 1..Len(hooks) :
          /\ hooks[i].pc = "returned"
          /\ hooks[i].exits = 1
          /\ flags[hooks[i].of].stopped

C11_DecorationOnlyAttachesMetadata ==
    [][/\ (members' # members \/ defined' # defined) =>
             /\ app' = app /\ hooks' = hooks /\ host' = host /\ flags' = flags
             /\ calls' = calls /\ last' = last
             /\ \A c \in Classes :
                   /\ defined'[c] = defined[c] =>
                         /\ router_spec'[c] = router_spec[c]
                         /\ is_dataclass'[c] = is_dataclass[c]
                   /\ \A i \in 1..Len(members[c]) : members'[c][i] = members[c][i]
                   /\ \A i \in 1..Len(members'[c]) :
                         LET m == members'[c][i]
                         IN  m.decorator \in Method \cup {"WEBSOCKET"} =>
                                 /\ m.callable = PlainMember.callable
                                 /\ m.route_spec # None \/ m.ws_route_spec # None
                                 /\ [m EXCEPT !.name = "", !.decorator = "",
                                              !.only_path = FALSE, !.route_spec = None,
                                              !.ws_route_spec = None] = PlainMember
       /\ app' # app => (calls' = calls + 1 /\ last'.op = "mount")]_vars

C11_Witness ==
    /\ defined["A"]
    /\ class_decorator["A"] # None
    /\ app = <<HostRoute>>
    /\ calls = 0
    /\ Len(members["A"]) = 2
    /\ members["A"][1].decorator = "WEBSOCKET"
    /\ members["A"][2].decorator = "GET"

\* The RouterSpec() of the module in use.
RouterSpecDefault ==
    CASE variant = "starlette" -> st_RouterSpecDefault
      [] variant = "fastapi" -> fa_RouterSpecDefault
      [] variant = "litestar" -> ls_RouterSpecDefault

\* C12: ROUTER written bare attaches a router specification with every field
\* at its default (empty prefix); ROUTER written with arguments attaches one
\* that holds the given arguments, the other fields at their defaults; either
\* way inspect_router on an instance does not raise.
C12_RouterBareOrWithArguments ==
    \A c \in Classes :
        (defined[c] /\ class_decorator[c] # None) =>
            LET u == Get(class_decorator[c])
            IN  /\ router_spec[c] # None
                /\ u.bare =>
                      /\ Get(router_spec[c]) = RouterSpecDefault
                      /\ Get(router_spec[c]).prefix = <<>>
                /\ ~u.bare =>
                      \A f \in DOMAIN RouterSpecDefault :
                          Get(router_spec[c])[f] =
                              IF f \in DOMAIN u.kwargs THEN u.kwargs[f]
                              ELSE RouterSpecDefault[f]
                /\ inspect_router(c).raised = ""
                /\ (last.op = "inspect" /\ last.router = c) =>
                      (last.raised = "" /\ Get(last.value).spec = Get(router_spec[c]))

C12_Witness ==
    /\ last.op = "inspect"
    /\ last.raised = ""
    /\ class_decorator[last.router] = Called([prefix |-> PathApi])
    /\ Get(last.value).spec.prefix = PathApi

\* C13: inspect_router and mount_router calls, whatever their arguments,
\* leave the router specification of the class and the route and websocket
\* specifications of its methods as decoration left them; a mount call that
\* repeats the arguments of the mount call before it registers the same
\* paths.
C13_StoredSpecificationsAreNotWritten ==
    [][(calls' = calls + 1 \/ last'.op = "inspect") =>
          /\ router_spec' = router_spec
          /\ members' = members
          /\ (/\ calls' = calls + 1
              /\ last.op = "mount" /\ last.raised = "" /\ last'.raised = ""
              /\ last'.router = last.router /\ last'.args = last.args) =>
                LET new == Added(app, app')
                IN  /\ Len(new) <= Len(app)
                    /\ Paths(new) = Paths(LastEntries(app, Len(new)))]_vars

C13_Witness ==
    /\ variant = "starlette"
    /\ calls = 2
    /\ last.args.prefix = PathV1
    /\ Len(app) = 2
    /\ app[1].path = app[2].path
    /\ app[2].path = PathV1 \o PathApi \o PathX
    /\ Get(members["A"][1].route_spec).path = PathX
    /\ Get(router_spec["A"]).prefix = PathApi

\* C14: on a Starlette host, after k mount_router calls on an instance of a
\* ROUTER-decorated class with n HTTP handlers and m websocket handlers, the
\* route list holds k*(n+m) entries more than the host was built with, k for
\* each handler; a mount call keeps every earlier entry in its place.
C14_EveryMountAddsItsRoutes ==
    /\ [](\A c \in MainClasses :
            (variant = "starlette" /\ defined[c] /\ router_spec[c] # None) =>
                LET http == {i \in 1..Len(members[c]) : members[c][i].decorator \in Method}
                    ws == {i \in 1..Len(members[c]) : members[c][i].decorator = "WEBSOCKET"}
                    built == {k \in 1..Len(app) : app[k].kind = "host"}
                IN  /\ Len(app) = Cardinality(built)
                                    + calls * (Cardinality(http) + Cardinality(ws))
                    /\ \A i \in http \cup ws :
                          Cardinality({k \in 1..Len(app) \ built :
                                          app[k].endpoint = <<c, members[c][i].name>>})
                              = calls)
    /\ [][(variant = "starlette" /\ calls' = calls + 1) =>
              (Len(app') >= Len(app) /\ SubSeq(app', 1, Len(app)) = app)]_vars

C14_Witness ==
    /\ variant = "starlette"
    /\ calls = 2
    /\ Len(app) = 5
    /\ app[1] = HostRoute
    /\ app[2].kind = "Route" /\ app[3].kind = "WebSocketRoute"
    /\ app[4] = app[2] /\ app[5] = app[3]

\* C15: a websocket handler declared at "/ws" in a router of prefix "/api",
\* mounted without a mount prefix, is registered at "/api/ws": as that path
\* in Starlette, as the route "/ws" of a sub-router of prefix "/api" in
\* FastAPI and Litestar.  In Starlette a websocket route and an HTTP route
\* declared at the same path in the same router get the same registered path,
\* whatever the mount prefix.
C15_WebsocketPathLikeHttpPath ==
    (last.op = "mount" /\ last.raised = "") =>
        LET at_api_ws == /\ Get(router_spec[last.router]).prefix = PathApi
                         /\ last.args.prefix = <<>>
        IN  CASE variant = "starlette" ->
                    \A k \in 1..Len(app) :
                        app[k].kind = "WebSocketRoute" =>
                            /\ (at_api_ws /\ DeclaredPath(app[k].endpoint) = PathWs)
                                  => app[k].path = PathApi \o PathWs
                            /\ \A j \in 1..Len(app) :
                                  (/\ app[j].kind = "Route"
                                   /\ DeclaredPath(app[j].endpoint)
                                         = DeclaredPath(app[k].endpoint))
                                      => app[j].path = app[k].path
              [] variant = "fastapi" ->
                    \A r \in Range(app[Len(app)].api_router.routes) :
                        (/\ r.kind = "api_websocket_route" /\ at_api_ws
                         /\ DeclaredPath(r.endpoint) = PathWs) =>
                            /\ app[Len(app)].prefix = <<>>
                            /\ app[Len(app)].api_router.prefix = PathApi
                            /\ r.path = PathWs
              [] variant = "litestar" ->
                    \A r \in Range(app[Len(app)].route_handlers) :
                        (/\ r.kind = "websocket" /\ at_api_ws
                         /\ DeclaredPath(r.fn) = PathWs) =>
                            /\ app[Len(app)].path = PathApi
                            /\ r.path = PathWs

C15_Witness ==
    /\ variant = "starlette"
    /\ last.op = "mount"
    /\ Len(app) = 2
    /\ app[1].kind = "Route"
    /\ app[2].kind = "WebSocketRoute"
    /\ DeclaredPath(app[2].endpoint) = PathWs
    /\ app[2].path = <<"/", "a", "p", "i", "/", "w", "s">>
    /\ app[1].path = app[2].path

C17_RouteResponsesOverride ==
    (last.op = "mount" /\ last.raised = "") =>
        \A r \in Range(app[Len(app)].route_handlers) :
            r.kind = "route" =>
                LET own == Get(Lookup(members[r.fn[1]], r.fn[2]).route_spec).responses
                    level == Keys(last.args.responses)
                                \cup Keys(Get(router_spec[last.router]).responses)
                IN  /\ Keys(r.responses) = level \cup Keys(own)
                    /\ \A k \in Keys(own) : Get(r.responses)[k] = Get(own)[k]

\* C18: in the Litestar module the include_in_schema of the host router is
\* the value passed to mount_router when one is passed, true or false, and
\* the value of the ROUTER decorator when none is passed.
C18_IncludeInSchemaPrecedence ==
    (last.op = "mount" /\ last.raised = "") =>
        LET given == last.args.include_in_schema
            level == Get(router_spec[last.router]).include_in_schema
        IN  app[Len(app)].include_in_schema = IF given # Empty THEN given ELSE level

C18_Witness ==
    /\ last.op = "mount"
    /\ last.raised = ""
    /\ last.args.include_in_schema = Empty
    /\ Get(router_spec[last.router]).include_in_schema = Some(FALSE)
    /\ app[Len(app)].include_in_schema = Some(FALSE)

\* C19: in the Litestar module the path of the host router is the router
\* prefix unchanged when the mount prefix is empty; otherwise the mount
\* prefix without its trailing slashes, one "/", and the router prefix
\* without its leading slashes; with an empty router prefix no trailing
\* separator is added to the mount prefix.
C19_RouterPathJoinedByOneSlash ==
    (last.op = "mount" /\ last.raised = "") =>
        LET mp == last.args.prefix
            rp == Get(router_spec[last.router]).prefix
            path == app[Len(app)].path
        IN  IF mp = <<>> THEN path = rp
            ELSE IF rp = <<>> THEN path \in {mp, rstrip(mp, SLASH)}
            ELSE path = rstrip(mp, SLASH) \o <<SLASH>> \o lstrip(rp, SLASH)

\* C20: inspect_router lists the routes (and the websocket routes) in
\* ascending order of the handlers' member names, in whatever order the class
\* body declares the methods, and mount_router registers them in that order:
\* in app.routes in Starlette, on the sub-router in FastAPI and Litestar.
C20_DiscoveryIsAlphabetical ==
    /\ (last.op = "inspect" /\ last.raised = "") =>
          /\ Ascending([i \in 1..Len(Get(last.value).routes) |->
                            Get(last.value).routes[i].fn])
          /\ Ascending([i \in 1..Len(Get(last.value).websocket_routes) |->
                            Get(last.value).websocket_routes[i].fn])
    /\ (last.op = "mount" /\ last.raised = "") =>
          CASE variant = "starlette" ->
                  /\ Ascending(EndpointsOf(app, "Route"))
                  /\ Ascending(EndpointsOf(app, "WebSocketRoute"))
                  /\ EndpointsOf(app, "Route")
                        = [i \in 1..Len(st_inspect_router(last.router).value[1].routes) |->
                              st_inspect_router(last.router).value[1].routes[i].fn]
            [] variant = "fastapi" ->
                  /\ Ascending(EndpointsOf(app[Len(app)].api_router.routes, "api_route"))
                  /\ Ascending(EndpointsOf(app[Len(app)].api_router.routes,
                                           "api_websocket_route"))
            [] variant = "litestar" ->
                  /\ Ascending(EndpointsOf(app[Len(app)].route_handlers, "route"))
                  /\ Ascending(EndpointsOf(app[Len(app)].route_handlers, "websocket"))

C20_Witness ==
    /\ variant = "starlette"
    /\ last.op = "mount"
    /\ Len(members["A"]) = 2
    /\ members["A"][1].name = "c"
    /\ members["A"][2].name = "a"
    /\ Len(app) = 2
    /\ app[1].kind = "Route" /\ app[1].endpoint = <<"A", "a">>
    /\ app[2].kind = "Route" /\ app[2].endpoint = <<"A", "c">>

\* The names of the LIFESPAN-tagged methods of class c.
Tagged(c) ==
    {members[c][i].name : i \in {j \in 1..Len(members[c]) : members[c][j].router_lifespan}}

\* The name of a set of names that sorts first.
FirstName(S) == CHOOSE n \in S : \A o \in S : Rank(n) <= Rank(o)

\* C21: in the FastAPI module, of several LIFESPAN-tagged methods of a
\* router class the one whose name sorts first is the hook the mount wraps,
\* and the only one the host lifecycle ever enters or exits; a router with no
\* tagged method is included with no lifespan wrapper.
C21_FirstTaggedHookOnly ==
    /\ (last.op = "mount" /\ last.raised = "") =>
          LET c == last.router
              lifespan == app[Len(app)].api_router.lifespan
          IN  IF Tagged(c) = {}
              THEN lifespan = None /\ hooks[Len(hooks)] = NoWrapper
              ELSE /\ lifespan = Some([wrapper_of |-> <<c, FirstName(Tagged(c))>>])
                   /\ hooks[Len(hooks)].fn = <<c, FirstName(Tagged(c))>>
    /\ (last.op = "inspect" /\ last.raised = "") =>
          Get(last.value).lifespan =
              IF Tagged(last.router) = {} THEN None
              ELSE Some(<<last.router, FirstName(Tagged(last.router))>>)
    /\ \A c \in Classes :
          /\ flags[c].exited \subseteq flags[c].entered
          /\ flags[c].entered \subseteq
                IF Tagged(c) = {} THEN {} ELSE {FirstName(Tagged(c))}
          /\ Tagged(c) = {} => flags[c].entries = 0

C21_Witness ==
    /\ host.pc = "stopped"
    /\ Len(members["A"]) = 2
    /\ members["A"][1].name = "c" /\ members["A"][1].router_lifespan
    /\ members["A"][2].name = "b" /\ members["A"][2].router_lifespan
    /\ flags["A"].entered = {"b"}
    /\ flags["A"].exited = {"b"}

\* C22: the FastAPI lifespan wrapper suppresses nothing.  A hook that raises
\* in its setup makes the wrapper raise before it yields: the host goes
\* straight to unwinding with the exception and never serves.  An exception
\* raised while serving is handed to the hook, and leaves the wrapper
\* exactly when the hook lets it through; a wrapper left without an
\* exception raises none.
C22_WrapperSuppressesNothing ==
    /\ [](\A i \in 1..Len(hooks) :
            /\ hooks[i].pc = "raised" =>
                  /\ BodyOf(hooks[i].fn) = "setup_raises"
                  /\ hooks[i].exits = 0
                  /\ host.pc \in {"shutdown", "failed", "stopped"}
            /\ (hooks[i].entries > 0 /\ BodyOf(hooks[i].fn) = "setup_raises")
                  => hooks[i].pc = "raised"
            /\ host.pc = "serving" => hooks[i].pc \in {"none", "yielded"})
    /\ [][\A i \in 1..Len(hooks) :
            /\ (hooks[i].pc = "new" /\ hooks'[i].pc = "raised")
                  => (host'.pc = "shutdown" /\ host'.exc)
            /\ (hooks[i].pc = "yielded" /\ hooks'[i].pc = "exited") =>
                  /\ flags'[hooks[i].of].exits = flags[hooks[i].of].exits + 1
                  /\ hooks'[i].raised
                        = (host.exc /\ BodyOf(hooks[i].fn) # "except_pass")
            /\ (hooks[i].pc = "exited" /\ hooks'[i].pc = "returned")
                  => host'.exc = hooks[i].raised]_vars

C22_Witness ==
    /\ host.pc = "stopped"
    /\ Len(hooks) = 2
    /\ hooks[2].pc = "returned" /\ hooks[2].exits = 1 /\ hooks[2].raised
    /\ hooks[1].pc = "returned" /\ hooks[1].exits = 1 /\ ~hooks[1].raised
    /\ BodyOf(hooks[1].fn) = "except_pass"
    /\ BodyOf(hooks[2].fn) = "try_finally"

\* The wrappers the host holds around hooks of class c.
WrappersOf(c) == {i \in 1..Len(hooks) : hooks[i].pc # "none" /\ hooks[i].of = c}

\* C27: in the FastAPI module every successful mount_router call on a router
\* with a lifespan hook gives the host one more wrapper around that hook,
\* however often the router was mounted before; a host run that ends has
\* entered the hook once and exited it once for each of these mounts, and at
\* every moment the hook was exited at most as often as it was entered.
C27_OneWrapperPerMount ==
    /\ [](\A c \in Classes :
            /\ flags[c].exits <= flags[c].entries
            /\ flags[c].entries <= Cardinality(WrappersOf(c))
            /\ (defined[c] /\ router_spec[c] # None /\ Tagged(c) # {})
                  => Cardinality(WrappersOf(c)) = calls
            /\ host.pc \in {"stopped", "failed"} =>
                  /\ flags[c].entries = Cardinality(WrappersOf(c))
                  /\ flags[c].exits = Cardinality(WrappersOf(c)))
    /\ [][(calls' = calls + 1 /\ last'.raised = "" /\ Tagged(last'.router) # {})
              => /\ Len(hooks') = Len(hooks) + 1
                 /\ hooks'[Len(hooks')].pc = "new"
                 /\ hooks'[Len(hooks')].of = last'.router
                 /\ \A i \in 1..Len(hooks) : hooks'[i] = hooks[i]]_vars

C27_Witness ==
    /\ host.pc = "stopped"
    /\ calls = MaxMounts
    /\ Cardinality(WrappersOf("A")) = MaxMounts
    /\ flags["A"].entries = MaxMounts
    /\ flags["A"].exits = MaxMounts

\* C23: in the FastAPI module a successful mount_router call makes one
\* include_router call: the sub-router it passes holds the fields of the
\* ROUTER specification with their declared values and the routes with their
\* declared options, and the call's keyword arguments are those of the
\* mount call, each unchanged; nothing of one level is written into the
\* other.
C23_CompositionLeftToTheHost ==
    [][(calls' = calls + 1 /\ last'.raised = "") =>
          LET e == app'[Len(app')]
              a == last'.args
              spec == Get(router_spec[last'.router])
          IN  /\ app' = Append(app, e)
              /\ e.kind = "include_router"
              /\ DOMAIN e = DOMAIN a \cup {"kind", "api_router"}
              /\ \A f \in DOMAIN a : e[f] = a[f]
              /\ DOMAIN e.api_router = DOMAIN spec \cup {"lifespan", "routes"}
              /\ \A f \in DOMAIN spec : e.api_router[f] = spec[f]
              /\ \A k \in 1..Len(e.api_router.routes) :
                    LET r == e.api_router.routes[k]
                        m == Lookup(members[r.endpoint[1]], r.endpoint[2])
                    IN  /\ r.path = DeclaredPath(r.endpoint)
                        /\ r.kind = "api_route" => r.tags = Get(m.route_spec).tags]_vars

C23_Witness ==
    /\ last.op = "mount"
    /\ last.raised = ""
    /\ last.args.tags = Some(<<"a", "b">>)
    /\ last.args.prefix = PathV1
    /\ last.args.dependencies = Some(<<"Depends(b)">>)
    /\ app[Len(app)].tags = Some(<<"a", "b">>)
    /\ app[Len(app)].api_router.tags = Some(<<"a">>)
    /\ app[Len(app)].api_router.prefix = PathApi
    /\ app[Len(app)].api_router.dependencies = Some(<<"Depends(a)">>)
    /\ \E k \in 1..Len(app[Len(app)].api_router.routes) :
          app[Len(app)].api_router.routes[k].tags = Some(<<"t">>)

\* The handlers an entry of the host registers.
HandlersOf(e) ==
    CASE variant = "starlette" -> {e.endpoint}
      [] variant = "fastapi" ->
            {e.api_router.routes[k].endpoint : k \in 1..Len(e.api_router.routes)}
      [] variant = "litestar" ->
            {e.route_handlers[k].fn : k \in 1..Len(e.route_handlers)}

\* The router-level tags and response keys an entry of the host carries: on
\* the sub-router and on its routes (none in Starlette).
LevelTagsOf(e) ==
    CASE variant = "starlette" -> {}
      [] variant = "fastapi" -> Elements(e.api_router.tags)
      [] variant = "litestar" -> Elements(e.tags)

LevelResponseKeysOf(e) ==
    CASE variant = "starlette" -> {}
      [] variant = "fastapi" -> Keys(e.api_router.responses)
      [] variant = "litestar" ->
            UNION {Keys(e.route_handlers[k].responses)
                      : k \in {j \in 1..Len(e.route_handlers) :
                                  e.route_handlers[j].kind = "route"}}

\* C24: two routers mounted on one host, in either order and any number of
\* times, are isolated.  A mount_router call on one leaves the stored
\* specifications of the other and every entry already on the host as they
\* were; the entries it adds register handlers of the mounted router only,
\* and carry tags and responses of that router (and of the mount call) and
\* none of the other router.
C24_RoutersAreIsolated ==
    [][calls' = calls + 1 =>
          LET c == last'.router
              new == Added(app, app')
          IN  /\ SubSeq(app', 1, Len(app)) = app
              /\ \A d \in Classes \ {c} :
                    /\ router_spec'[d] = router_spec[d]
                    /\ members'[d] = members[d]
              /\ \A k \in 1..Len(new) :
                    /\ \A h \in HandlersOf(new[k]) : h[1] = c
                    /\ variant # "starlette" =>
                          /\ LevelTagsOf(new[k])
                                = Elements(Get(router_spec[c]).tags)
                                     \cup (IF variant = "litestar"
                                           THEN Elements(last'.args.tags) ELSE {})
                          /\ LevelResponseKeysOf(new[k])
                                \subseteq Keys(Get(router_spec[c]).responses)
                    /\ (variant = "starlette" /\ new[k].kind = "Route") =>
                          new[k].middleware = Get(router_spec[c]).middleware]_vars

C24_Witness ==
    /\ variant = "litestar"
    /\ calls = 2
    /\ Len(app) = 2
    /\ HandlersOf(app[1]) = {<<"B", "a">>, <<"B", "b">>}
    /\ HandlersOf(app[2]) = {<<"A", "a">>, <<"A", "b">>}
    /\ app[1].tags = Some(<<"b">>)
    /\ app[2].tags = Some(<<"a">>)
    /\ LevelResponseKeysOf(app[1]) = {404}
    /\ LevelResponseKeysOf(app[2]) = {401}

\* In a sequence of registrations, every entry of kind `first` comes before
\* every entry of kind `then`.
KindBefore(entries, first, then) ==
    \A i, j \in 1..Len(entries) :
        (entries[i].kind = then /\ entries[j].kind = first) => j < i

\* C25: one mount_router call registers every discovered HTTP route before
\* any discovered websocket route, in every module; in Starlette the
\* websocket entries of a mount come after every HTTP entry of that mount and
\* after every entry the route list held before the call.
C25_HttpBeforeWebsocket ==
    [][(calls' = calls + 1 /\ last'.raised = "") =>
          LET new == Added(app, app')
              c == last'.router
              http == {i \in 1..Len(members[c]) : members[c][i].decorator \in Method}
              ws == {i \in 1..Len(members[c]) : members[c][i].decorator = "WEBSOCKET"}
          IN  /\ SubSeq(app', 1, Len(app)) = app
              /\ CASE variant = "starlette" ->
                        /\ Len(new) = Cardinality(http) + Cardinality(ws)
                        /\ \A i \in 1..Len(new) :
                              new[i].kind = IF i <= Cardinality(http) THEN "Route"
                                            ELSE "WebSocketRoute"
                        /\ KindBefore(new, "Route", "WebSocketRoute")
                   [] variant = "fastapi" ->
                        /\ Len(new) = 1
                        /\ Len(new[1].api_router.routes)
                              = Cardinality(http) + Cardinality(ws)
                        /\ KindBefore(new[1].api_router.routes,
                                      "api_route", "api_websocket_route")
                   [] variant = "litestar" ->
                        /\ Len(new) = 1
                        /\ Len(new[1].route_handlers)
                              = Cardinality(http) + Cardinality(ws)
                        /\ KindBefore(new[1].route_handlers, "route", "websocket")]_vars

C25_Witness ==
    /\ variant = "starlette"
    /\ calls = 2
    /\ Len(members["A"]) = 2
    /\ members["A"][1].name = "b" /\ members["A"][1].decorator = "GET"
    /\ members["A"][2].name = "a" /\ members["A"][2].decorator = "WEBSOCKET"
    /\ Len(app) = 4
    /\ app[1].kind = "Route" /\ app[1].endpoint = <<"A", "b">>
    /\ app[2].kind = "WebSocketRoute" /\ app[2].endpoint = <<"A", "a">>
    /\ app[3].kind = "Route"
    /\ app[4].kind = "WebSocketRoute"

\* The handlers of class c in the order a mount registers them: the HTTP
\* handlers by name, then the websocket handlers by name.
RegistrationOrder(c) ==
    LET has(n, D) == HasName(members[c], n) /\ Lookup(members[c], n).decorator \in D
    IN  [i \in 1..Len(SelectSeq(SortedNames, LAMBDA n : has(n, Method))) |->
            <<c, SelectSeq(SortedNames, LAMBDA n : has(n, Method))[i]>>]
        \o [i \in 1..Len(SelectSeq(SortedNames, LAMBDA n : has(n, {"WEBSOCKET"}))) |->
            <<c, SelectSeq(SortedNames, LAMBDA n : has(n, {"WEBSOCKET"}))[i]>>]

\* C26: a mount_router call in which a call into the host raises while the
\* routes are being built propagates the error.  In FastAPI and Litestar the
\* host then holds no registration (and no lifespan wrapper) from this
\* mount; a mount that succeeds adds its one sub-router in one step.  In
\* Starlette a failure at the k-th route leaves the first k-1 routes of this
\* mount appended, in order, after the entries already there.
C26_FailureLeavesHostOrPrefix ==
    [][calls' = calls + 1 =>
          LET new == Added(app, app')
              c == last'.router
              k == last'.fail
              order == RegistrationOrder(c)
          IN  /\ SubSeq(app', 1, Len(app)) = app
              /\ (router_spec[c] # None /\ k \in 1..Len(order))
                    => last'.raised = "HostError"
              /\ last'.raised = "HostError" =>
                    IF variant = "starlette"
                    THEN /\ Len(new) = k - 1
                         /\ \A i \in 1..Len(new) : new[i].endpoint = order[i]
                    ELSE app' = app /\ hooks' = hooks
              /\ (last'.raised = "" /\ variant # "starlette") =>
                    /\ Len(new) = 1
                    /\ HandlersOf(new[1]) = Range(order)]_vars

C26_Witness ==
    /\ variant = "starlette"
    /\ last.op = "mount"
    /\ last.raised = "HostError"
    /\ last.fail = 2
    /\ Len(RegistrationOrder("A")) = 2
    /\ Len(app) = 2
    /\ app[1] = HostRoute
    /\ app[2].kind = "Route"
    /\ app[2].endpoint = RegistrationOrder("A")[1]

\* C28: in the Starlette module the router-level middleware goes to the
\* HTTP routes only.  A websocket specification holds a path and a name; a
\* websocket route is registered with its handler, its composed path and its
\* declared name and nothing else, whatever middleware ROUTER declares,
\* while the HTTP routes of the same mount carry that middleware.
C28_WebsocketRoutesCarryNoMiddleware ==
    /\ \A c \in Classes : \A i \in 1..Len(members[c]) :
          members[c][i].ws_route_spec # None
              => DOMAIN Get(members[c][i].ws_route_spec) = {"path", "name"}
    /\ (last.op = "mount" /\ last.raised = "") =>
          \A k \in 1..Len(app) :
              LET level == Get(router_spec[last.router]).middleware
              IN  /\ app[k].kind = "WebSocketRoute" =>
                        /\ DOMAIN app[k] = {"kind", "endpoint", "path", "name"}
                        /\ app[k].name
                              = Get(Lookup(members[app[k].endpoint[1]],
                                           app[k].endpoint[2]).ws_route_spec).name
                        /\ app[k].path
                              = rstrip(last.args.prefix, SLASH)
                                   \o Get(router_spec[last.router]).prefix
                                   \o DeclaredPath(app[k].endpoint)
                  /\ (app[k].kind = "Route" /\ level # None) =>
                        /\ app[k].middleware # None
                        /\ SubSeq(Get(app[k].middleware), 1, Len(Get(level))) = Get(level)

C28_Witness ==
    /\ last.op = "mount"
    /\ last.raised = ""
    /\ Get(router_spec[last.router]).middleware = Some(<<"m1", "m2">>)
    /\ Len(app) = 2
    /\ app[1].kind = "Route"
    /\ app[1].middleware = Some(<<"m1", "m2">>)
    /\ app[2].kind = "WebSocketRoute"
    /\ app[2].path = PathApi \o PathWs

====
